---- MODULE Spec2Model ----
(***************************************************************************)
(* Passcode-based encryption of the locally stored profile and job lists   *)
(* of the job-hunter extension: services/encryptionService.ts and          *)
(* services/storageService.ts.                                             *)
(*                                                                         *)
(* Strings are sequences of UTF-16 code units, byte arrays are sequences   *)
(* of 0..255.  AES-GCM is the ideal authenticated cipher: a decryption     *)
(* succeeds exactly for a (key, iv, ciphertext) that an encryption made    *)
(* (recorded in ledger).  crypto.getRandomValues is the ideal generator:   *)
(* it never returns the same value twice (counter rng).  PBKDF2 and        *)
(* SHA-256 are injective constructors.                                     *)
(***************************************************************************)
EXTENDS Integers, Sequences, FiniteSets, TLC

\* ------------------------------------------------------------------ bounds
MaxEncryptions == 2
MaxServiceEncryptions == 1

\* ------------------------------------------------------- program constants
IV_LENGTH == 12
SALT_LENGTH == 32
ITERATIONS == 100000
\* JavaScript values are records: a string holds its code units, an array
\* its elements, an object names every property the program uses (Undefined
\* when the property is absent)
Null == [null |-> TRUE]
Undefined == [undefined |-> TRUE]
True == [bool |-> TRUE]
False == [bool |-> FALSE]
Num(n) == [num |-> n]
Str(units) == [str |-> units]
Arr(elements) == [arr |-> elements]
IsStr(v) == DOMAIN v = {"str"}
IsNum(v) == DOMAIN v = {"num"}

\* '1.0'
VERSION == Str(<< 49, 46, 48 >>)

NoError == "none"

PASSCODE_REQUIRED == "PASSCODE_REQUIRED_FOR_ENCRYPTION"
ENCRYPT_FAILED == "Failed to encrypt data"
DECRYPT_FAILED == "Failed to decrypt data - invalid key or corrupted data"
INCOMPATIBLE_VERSION == "Incompatible encryption version"

\* 'job_hunter_encryption_salt_2025' as code units
PASSCODE_SUFFIX ==
  << 106,111,98,95,104,117,110,116,101,114,95,101,110,99,114,121,112,116,
     105,111,110,95,115,97,108,116,95,50,48,50,53 >>

\* --------------------------------------------------------- sequence helpers
RECURSIVE Repeat(_, _)
Repeat(s, n) == IF n = 0 THEN << >> ELSE s \o Repeat(s, n - 1)

\* concatenation of ss[lo..hi]
RECURSIVE FlattenRange(_, _, _)
FlattenRange(ss, lo, hi) ==
  IF lo > hi THEN << >>
  ELSE IF lo = hi THEN ss[lo]
  ELSE FlattenRange(ss, lo, (lo + hi) \div 2)
         \o FlattenRange(ss, (lo + hi) \div 2 + 1, hi)

Flatten(ss) == FlattenRange(ss, 1, Len(ss))

\* ----------------------------------------------------- TextEncoder.encode
IsHighSurrogate(u) == u >= 55296 /\ u <= 56319
IsLowSurrogate(u) == u >= 56320 /\ u <= 57343

Utf8OfCodePoint(cp) ==
  IF cp < 128 THEN << cp >>
  ELSE IF cp < 2048 THEN << 192 + (cp \div 64), 128 + (cp % 64) >>
  ELSE IF cp < 65536 THEN
    << 224 + (cp \div 4096), 128 + ((cp \div 64) % 64), 128 + (cp % 64) >>
  ELSE << 240 + (cp \div 262144), 128 + ((cp \div 4096) % 64),
          128 + ((cp \div 64) % 64), 128 + (cp % 64) >>

\* The string is converted to scalar values and each is written as UTF-8:
\* a high surrogate followed by a low one is one supplementary code point,
\* any other surrogate becomes U+FFFD.
TextEncode(s) ==
  Flatten([i \in 1..Len(s) |->
    IF IsHighSurrogate(s[i]) /\ i < Len(s) /\ IsLowSurrogate(s[i + 1]) THEN
      Utf8OfCodePoint(65536 + (s[i] - 55296) * 1024 + (s[i + 1] - 56320))
    ELSE IF IsLowSurrogate(s[i]) /\ i > 1 /\ IsHighSurrogate(s[i - 1]) THEN << >>
    ELSE IF IsHighSurrogate(s[i]) \/ IsLowSurrogate(s[i]) THEN
      Utf8OfCodePoint(65533)
    ELSE Utf8OfCodePoint(s[i])])

\* ----------------------------------------------------- TextDecoder.decode
Utf16OfCodePoint(cp) ==
  IF cp < 65536 THEN << cp >>
  ELSE << 55296 + ((cp - 65536) \div 1024), 56320 + ((cp - 65536) % 1024) >>

Continuation(b, i) == i >= 1 /\ i <= Len(b) /\ b[i] >= 128 /\ b[i] <= 191

\* the length of the well-formed UTF-8 sequence that starts at b[i], else 0
SequenceLength(b, i) ==
  IF i < 1 \/ i > Len(b) THEN 0
  ELSE IF b[i] < 128 THEN 1
  ELSE IF b[i] >= 194 /\ b[i] <= 223 /\ Continuation(b, i + 1) THEN 2
  ELSE IF b[i] >= 224 /\ b[i] <= 239 /\ Continuation(b, i + 1)
          /\ Continuation(b, i + 2)
          /\ (b[i] - 224) * 4096 + (b[i + 1] - 128) * 64 >= 2048
          /\ ~ IsHighSurrogate((b[i] - 224) * 4096 + (b[i + 1] - 128) * 64)
          /\ ~ IsLowSurrogate((b[i] - 224) * 4096 + (b[i + 1] - 128) * 64) THEN 3
  ELSE IF b[i] >= 240 /\ b[i] <= 244 /\ Continuation(b, i + 1)
          /\ Continuation(b, i + 2) /\ Continuation(b, i + 3)
          /\ (b[i] - 240) * 262144 + (b[i + 1] - 128) * 4096 >= 65536
          /\ (b[i] - 240) * 262144 + (b[i + 1] - 128) * 4096 <= 1114111 THEN 4
  ELSE 0

CodePointAt(b, i) ==
  IF SequenceLength(b, i) = 1 THEN b[i]
  ELSE IF SequenceLength(b, i) = 2 THEN (b[i] - 192) * 64 + (b[i + 1] - 128)
  ELSE IF SequenceLength(b, i) = 3 THEN
    (b[i] - 224) * 4096 + (b[i + 1] - 128) * 64 + (b[i + 2] - 128)
  ELSE (b[i] - 240) * 262144 + (b[i + 1] - 128) * 4096
         + (b[i + 2] - 128) * 64 + (b[i + 3] - 128)

\* UTF-8 decoding with replacement: a well-formed sequence yields its code
\* point, a byte outside any well-formed sequence yields U+FFFD
Utf8Decode(b) ==
  Flatten([i \in 1..Len(b) |->
    IF SequenceLength(b, i) > 0 THEN Utf16OfCodePoint(CodePointAt(b, i))
    ELSE IF Continuation(b, i)
            /\ \E k \in 1..3 : SequenceLength(b, i - k) > k THEN << >>
    ELSE << 65533 >>])

\* new TextDecoder() has ignoreBOM = false: a leading byte order mark
\* EF BB BF is consumed and not part of the decoded string.
TextDecode(b) ==
  IF Len(b) >= 3 /\ b[1] = 239 /\ b[2] = 187 /\ b[3] = 191
  THEN Utf8Decode(SubSeq(b, 4, Len(b)))
  ELSE Utf8Decode(b)

\* ------------------------------------------------------------------ base64
Base64Char(v) ==
  IF v < 26 THEN 65 + v
  ELSE IF v < 52 THEN 97 + (v - 26)
  ELSE IF v < 62 THEN 48 + (v - 52)
  ELSE IF v = 62 THEN 43 ELSE 47

Base64Value(c) ==
  IF c >= 65 /\ c <= 90 THEN c - 65
  ELSE IF c >= 97 /\ c <= 122 THEN c - 97 + 26
  ELSE IF c >= 48 /\ c <= 57 THEN c - 48 + 52
  ELSE IF c = 43 THEN 62
  ELSE IF c = 47 THEN 63
  ELSE -1

\* btoa over the binary string built from the bytes: three bytes make four
\* characters, the last group is padded with '='
Base64Group(b, g) ==
  LET i == 3 * g - 2
  IN IF i = Len(b) THEN
       << Base64Char(b[i] \div 4), Base64Char((b[i] % 4) * 16), 61, 61 >>
     ELSE IF i + 1 = Len(b) THEN
       << Base64Char(b[i] \div 4),
          Base64Char((b[i] % 4) * 16 + (b[i + 1] \div 16)),
          Base64Char((b[i + 1] % 16) * 4), 61 >>
     ELSE
       << Base64Char(b[i] \div 4),
          Base64Char((b[i] % 4) * 16 + (b[i + 1] \div 16)),
          Base64Char((b[i + 1] % 16) * 4 + (b[i + 2] \div 64)),
          Base64Char(b[i + 2] % 64) >>

arrayBufferToBase64(b) ==
  Flatten([g \in 1..((Len(b) + 2) \div 3) |-> Base64Group(b, g)])

IsAsciiWhitespace(c) == c \in {9, 10, 12, 13, 32}

StripWhitespace(s) == SelectSeq(s, LAMBDA c : ~ IsAsciiWhitespace(c))

StripPadding(s) ==
  IF Len(s) > 0 /\ Len(s) % 4 = 0 THEN
    IF s[Len(s)] = 61 /\ s[Len(s) - 1] = 61 THEN SubSeq(s, 1, Len(s) - 2)
    ELSE IF s[Len(s)] = 61 THEN SubSeq(s, 1, Len(s) - 1)
    ELSE s
  ELSE s

\* the bytes of the g-th group of four (or the last two or three) values;
\* the bits left over in a last short group are discarded
Base64Bytes(v, g) ==
  LET i == 4 * g - 3
  IN IF i + 1 = Len(v) THEN << v[i] * 4 + (v[i + 1] \div 16) >>
     ELSE IF i + 2 = Len(v) THEN
       << v[i] * 4 + (v[i + 1] \div 16),
          (v[i + 1] % 16) * 16 + (v[i + 2] \div 4) >>
     ELSE
       << v[i] * 4 + (v[i + 1] \div 16),
          (v[i + 1] % 16) * 16 + (v[i + 2] \div 4),
          (v[i + 2] % 4) * 64 + v[i + 3] >>

\* atob (forgiving-base64 decode) followed by charCodeAt into a Uint8Array;
\* [ok |-> FALSE] when atob throws InvalidCharacterError.
base64ToArrayBuffer(s) ==
  LET t == StripPadding(StripWhitespace(s))
      v == [i \in 1..Len(t) |-> Base64Value(t[i])]
  IN IF Len(t) % 4 = 1 \/ \E i \in 1..Len(t) : v[i] < 0
     THEN [ok |-> FALSE, bytes |-> << >>]
     ELSE [ok |-> TRUE,
           bytes |-> Flatten([g \in 1..((Len(v) + 3) \div 4) |->
                                Base64Bytes(v, g)])]

\* ------------------------------------------------------------ JS truthiness
\* a string is truthy when it is not empty; null and undefined are falsy
Truthy(v) == v \notin {Null, Undefined, Str(<< >>), False, Num(0)}

\* -------------------------------------------------------------------- JSON
\* property names as code units
PropertyName ==
  [personalInfo |-> << 112, 101, 114, 115, 111, 110, 97, 108, 73, 110, 102, 111 >>,
   resumes |-> << 114, 101, 115, 117, 109, 101, 115 >>,
   settings |-> << 115, 101, 116, 116, 105, 110, 103, 115 >>,
   passcodeEnabled |-> << 112, 97, 115, 115, 99, 111, 100, 101, 69, 110, 97, 98, 108, 101, 100 >>,
   passcodeHash |-> << 112, 97, 115, 115, 99, 111, 100, 101, 72, 97, 115, 104 >>,
   lockoutDelay |-> << 108, 111, 99, 107, 111, 117, 116, 68, 101, 108, 97, 121 >>,
   lastActiveTime |-> << 108, 97, 115, 116, 65, 99, 116, 105, 118, 101, 84, 105, 109, 101 >>,
   passcode |-> << 112, 97, 115, 115, 99, 111, 100, 101 >>,
   apiProviders |-> << 97, 112, 105, 80, 114, 111, 118, 105, 100, 101, 114, 115 >>,
   encryptionEnabled |-> << 101, 110, 99, 114, 121, 112, 116, 105, 111, 110, 69, 110, 97, 98, 108, 101, 100 >>,
   encryptionVersion |-> << 101, 110, 99, 114, 121, 112, 116, 105, 111, 110, 86, 101, 114, 115, 105, 111, 110 >>,
   lastEncryptionCheck |-> << 108, 97, 115, 116, 69, 110, 99, 114, 121, 112, 116, 105, 111, 110, 67, 104, 101, 99, 107 >>,
   id |-> << 105, 100 >>,
   title |-> << 116, 105, 116, 108, 101 >>,
   company |-> << 99, 111, 109, 112, 97, 110, 121 >>,
   url |-> << 117, 114, 108 >>]

RECURSIVE Digits(_)
Digits(n) == IF n < 10 THEN << 48 + n >> ELSE Digits(n \div 10) \o << 48 + (n % 10) >>

\* JSON text of a primitive: string, number, true, false, null
JsonString(s) == << 34 >> \o s \o << 34 >>

JsonPrimitive(v) ==
  IF v = True THEN << 116, 114, 117, 101 >>
  ELSE IF v = False THEN << 102, 97, 108, 115, 101 >>
  ELSE IF v = Null THEN << 110, 117, 108, 108 >>
  ELSE IF IsNum(v) THEN Digits(v.num)
  ELSE IF IsStr(v) THEN JsonString(v.str)
  ELSE << >>

RECURSIVE JoinComma(_)
JoinComma(texts) ==
  IF texts = << >> THEN << >>
  ELSE IF Len(texts) = 1 THEN texts[1]
  ELSE texts[1] \o << 44 >> \o JoinComma(Tail(texts))

JsonArray(texts) == << 91 >> \o JoinComma(texts) \o << 93 >>

\* members are << name, value, text >>; a member whose value is undefined
\* is left out
JsonObject(members) ==
  LET kept == SelectSeq(members, LAMBDA m : m[2] # Undefined)
  IN << 123 >>
       \o JoinComma([i \in 1..Len(kept) |->
                      JsonString(kept[i][1]) \o << 58 >> \o kept[i][3]])
       \o << 125 >>

Member(name, value) == << name, value, JsonPrimitive(value) >>

\* JSON.stringify of the settings object
StringifySettings(st) ==
  JsonObject(<< Member(PropertyName.passcodeEnabled, st.passcodeEnabled),
                Member(PropertyName.passcodeHash, st.passcodeHash),
                Member(PropertyName.lockoutDelay, st.lockoutDelay),
                Member(PropertyName.lastActiveTime, st.lastActiveTime),
                Member(PropertyName.passcode, st.passcode),
                << PropertyName.apiProviders, st.apiProviders,
                   IF st.apiProviders = Undefined THEN << >>
                   ELSE JsonArray([i \in 1..Len(st.apiProviders.arr) |->
                                     JsonPrimitive(st.apiProviders.arr[i])]) >>,
                Member(PropertyName.encryptionEnabled, st.encryptionEnabled),
                Member(PropertyName.encryptionVersion, st.encryptionVersion),
                Member(PropertyName.lastEncryptionCheck, st.lastEncryptionCheck) >>)

StringifyResume(r) == JsonObject(<< Member(PropertyName.id, r.id) >>)

\* JSON.stringify of a UserProfile
StringifyProfile(p) ==
  Str(JsonObject(<< Member(PropertyName.personalInfo, p.personalInfo),
                << PropertyName.resumes, p.resumes,
                   IF p.resumes = Undefined THEN << >>
                   ELSE JsonArray([i \in 1..Len(p.resumes.arr) |->
                                     StringifyResume(p.resumes.arr[i])]) >>,
                << PropertyName.settings, p.settings,
                   IF p.settings = Undefined THEN << >>
                   ELSE StringifySettings(p.settings) >> >>))

StringifyJob(j) ==
  JsonObject(<< Member(PropertyName.id, j.id),
                Member(PropertyName.title, j.title),
                Member(PropertyName.company, j.company),
                Member(PropertyName.url, j.url) >>)

\* JSON.stringify of a job array
StringifyJobs(jobs) ==
  Str(JsonArray([i \in 1..Len(jobs.arr) |-> StringifyJob(jobs.arr[i])]))

\* JSON.parse: a value and the position after it; an object comes back as
\* the sequence of its << name, value >> members
ParseStringEnd(s, i) ==
  CHOOSE j \in i..Len(s) : s[j] = 34 /\ \A k \in i..(j - 1) : s[k] # 34

RECURSIVE ParseNumber(_, _, _)
ParseNumber(s, i, acc) ==
  IF i <= Len(s) /\ s[i] >= 48 /\ s[i] <= 57
  THEN ParseNumber(s, i + 1, acc * 10 + (s[i] - 48))
  ELSE [v |-> Num(acc), i |-> i]

RECURSIVE ParseValue(_, _)
RECURSIVE ParseElements(_, _, _)
RECURSIVE ParseMembers(_, _, _)

ParseValue(s, i) ==
  IF s[i] = 34 THEN
    [v |-> Str(SubSeq(s, i + 1, ParseStringEnd(s, i + 1) - 1)),
     i |-> ParseStringEnd(s, i + 1) + 1]
  ELSE IF s[i] = 116 THEN [v |-> True, i |-> i + 4]
  ELSE IF s[i] = 102 THEN [v |-> False, i |-> i + 5]
  ELSE IF s[i] = 110 THEN [v |-> Null, i |-> i + 4]
  ELSE IF s[i] = 91 THEN
    IF s[i + 1] = 93 THEN [v |-> Arr(<< >>), i |-> i + 2]
    ELSE ParseElements(s, i + 1, << >>)
  ELSE IF s[i] = 123 THEN
    IF s[i + 1] = 125 THEN [v |-> [members |-> << >>], i |-> i + 2]
    ELSE ParseMembers(s, i + 1, << >>)
  ELSE ParseNumber(s, i, 0)

ParseElements(s, i, acc) ==
  LET e == ParseValue(s, i)
  IN IF s[e.i] = 44 THEN ParseElements(s, e.i + 1, Append(acc, e.v))
     ELSE [v |-> Arr(Append(acc, e.v)), i |-> e.i + 1]

ParseMembers(s, i, acc) ==
  LET k == ParseValue(s, i)
      e == ParseValue(s, k.i + 1)
  IN IF s[e.i] = 44
     THEN ParseMembers(s, e.i + 1, Append(acc, << k.v.str, e.v >>))
     ELSE [v |-> [members |-> Append(acc, << k.v.str, e.v >>)], i |-> e.i + 1]

\* the value of a property of a parsed object, undefined when absent
Property(object, name) ==
  LET m == object.members
  IN IF \E k \in 1..Len(m) : m[k][1] = name
     THEN m[CHOOSE k \in 1..Len(m) : m[k][1] = name][2]
     ELSE Undefined

SettingsOf(m) ==
  [passcodeEnabled |-> Property(m, PropertyName.passcodeEnabled),
   passcodeHash |-> Property(m, PropertyName.passcodeHash),
   lockoutDelay |-> Property(m, PropertyName.lockoutDelay),
   lastActiveTime |-> Property(m, PropertyName.lastActiveTime),
   passcode |-> Property(m, PropertyName.passcode),
   apiProviders |-> Property(m, PropertyName.apiProviders),
   encryptionEnabled |-> Property(m, PropertyName.encryptionEnabled),
   encryptionVersion |-> Property(m, PropertyName.encryptionVersion),
   lastEncryptionCheck |-> Property(m, PropertyName.lastEncryptionCheck)]

\* JSON.parse of a profile text
ParseProfile(text) ==
  LET m == ParseValue(text.str, 1).v
      r == Property(m, PropertyName.resumes)
      st == Property(m, PropertyName.settings)
  IN [personalInfo |-> Property(m, PropertyName.personalInfo),
      resumes |-> IF r = Undefined THEN Undefined
                  ELSE Arr([i \in 1..Len(r.arr) |->
                              [id |-> Property(r.arr[i], PropertyName.id)]]),
      settings |-> IF st = Undefined THEN Undefined ELSE SettingsOf(st),
      encryptedProfile |-> Undefined,
      encryptionEnabled |-> Undefined,
      lastEncryptionCheck |-> Undefined]

\* JSON.parse of a job array text
ParseJobs(text) ==
  LET a == ParseValue(text.str, 1).v.arr
  IN Arr([i \in 1..Len(a) |->
            [id |-> Property(a[i], PropertyName.id),
             title |-> Property(a[i], PropertyName.title),
             company |-> Property(a[i], PropertyName.company),
             url |-> Property(a[i], PropertyName.url)]])

\* ------------------------------------------------ encryptionService: keys
\* EncryptionService.getPasscodeFromStorage: the passcode kept in a legacy
\* unencrypted profile, null for an encrypted record or no record
getPasscodeFromStorage(up) ==
  IF up # Undefined THEN
    IF up.encryptedProfile # Undefined THEN Null
    ELSE IF up.settings # Undefined /\ Truthy(up.settings.passcodeEnabled)
            /\ Truthy(up.settings.passcode)
         THEN up.settings.passcode
         ELSE Null
  ELSE Null

\* EncryptionService.getMasterKey: context passcode first, then storage,
\* else throw PASSCODE_REQUIRED_FOR_ENCRYPTION
getMasterKey(ctx, up) ==
  IF Truthy(ctx) THEN [ok |-> TRUE, value |-> ctx, err |-> NoError]
  ELSE IF Truthy(getPasscodeFromStorage(up))
       THEN [ok |-> TRUE, value |-> getPasscodeFromStorage(up), err |-> NoError]
       ELSE [ok |-> FALSE, value |-> Null, err |-> PASSCODE_REQUIRED]

\* EncryptionService.hasPasscodeKey: settings?.passcodeEnabled of the stored
\* record; both branches of the conditional read the stored record itself,
\* so an encrypted record (which has no settings) yields undefined (falsy)
hasPasscodeKey(up) ==
  IF up # Undefined
  THEN up.settings # Undefined /\ Truthy(up.settings.passcodeEnabled)
  ELSE FALSE

\* EncryptionService.getEncryptionSetupStatus
getEncryptionSetupStatus(ctx, up) ==
  LET hasPersistentKey == hasPasscodeKey(up)
      passcode == IF Truthy(ctx) THEN ctx ELSE getPasscodeFromStorage(up)
  IN [hasPersistentKey |-> hasPersistentKey,
      hasUserPassword |-> Truthy(passcode),
      keyAvailable |-> hasPersistentKey /\ Truthy(passcode)]

\* a key derived from the salt alone
deriveKeyFromSalt(passcode, salt) ==
  [password |-> TextEncode(PASSCODE_SUFFIX), salt |-> salt,
   iterations |-> ITERATIONS]

\* EncryptionService.deriveKeyFromPasscode: PBKDF2 over the strengthened
\* passcode; the derived key is determined by exactly these inputs
deriveKeyFromPasscode(passcode, salt) ==
  [password |-> TextEncode(Repeat(passcode.str, 8) \o PASSCODE_SUFFIX),
   salt |-> salt, iterations |-> ITERATIONS]

\* crypto.getRandomValues(new Uint8Array(len)): the n-th value drawn
RandomValues(n, len) == [i \in 1..len |-> IF i = len THEN n % 256 ELSE 0]

\* a salt that is the same for every call
generateSaltOnce(n) == RandomValues(0, SALT_LENGTH)

generateSalt(n) == RandomValues(n, SALT_LENGTH)

generateIV(n) == RandomValues(n, IV_LENGTH)

\* crypto.subtle.encrypt (AES-GCM): the n-th ciphertext, plaintext length
\* plus the 16 byte tag
SubtleEncrypt(n, plain) == [i \in 1..(Len(plain) + 16) |-> n % 256]

\* crypto.subtle.decrypt (AES-GCM): the ledger entries that authenticate
SubtleDecrypt(led, key, iv, data) ==
  {k \in 1..Len(led) : led[k].key = key /\ led[k].iv = iv /\ led[k].ct = data}

VARIABLES
  currentPasscodeContext,  \* EncryptionService.currentPasscodeContext
  userProfile,             \* chrome.storage.local 'userProfile'
  jobLists,                \* chrome.storage.local 'jobLists'
  webCrypto,               \* window.crypto && window.crypto.subtle
  now,                     \* Date.now()
  ledger,                  \* AES-GCM encryptions made so far
  rng,                     \* number of getRandomValues draws so far
  produced,                \* history: data, passcode, result of each encrypt
  ret,                     \* the last call: operation, arguments, outcome
  app,                     \* App component state: isLocked, storedPasscodeHash
  calls                    \* storage calls in flight, each at one of its awaits

vars == << currentPasscodeContext, userProfile, jobLists, webCrypto, now,
           ledger, rng, produced, ret, app, calls >>

\* ----------------------------------------------- encryptionService: cipher
\* EncryptionService.encrypt: outcome and the new ledger / rng / history
encrypt(data, ctx, up, led, n, prod) ==
  LET mk == getMasterKey(ctx, up)
  IN IF ~ mk.ok
     THEN [ok |-> FALSE, value |-> Null, err |-> PASSCODE_REQUIRED,
           steps |-> << "getMasterKey" >>,
           ledger |-> led, rng |-> n, produced |-> prod]
     ELSE
       LET salt == generateSalt(n)
           iv == generateIV(n + 1)
           secureKey == deriveKeyFromPasscode(mk.value, salt)
           encodedData == TextEncode(data.str)
           encryptedBuffer == SubtleEncrypt(Len(led) + 1, encodedData)
           result == [encryptedData |-> Str(arrayBufferToBase64(encryptedBuffer)),
                      iv |-> Str(arrayBufferToBase64(iv)),
                      salt |-> Str(arrayBufferToBase64(salt))]
       IN [ok |-> TRUE, value |-> result, err |-> NoError,
           steps |-> << "getMasterKey", "generateSalt", "generateIV",
                        "deriveKey", "subtle.encrypt" >>,
           ledger |-> Append(led, [key |-> secureKey, iv |-> iv,
                                   pt |-> encodedData, ct |-> encryptedBuffer]),
           rng |-> n + 2,
           produced |-> Append(prod, [data |-> data, passcode |-> mk.value,
                                      result |-> result])]

\* EncryptionService.decrypt: every failure inside the try block is
\* rethrown as the one decryption error
decrypt(encryptedData, iv, salt, ctx, up, led) ==
  LET mk == getMasterKey(ctx, up)
      saltArray == base64ToArrayBuffer(salt.str)
      ivArray == base64ToArrayBuffer(iv.str)
      dataArray == base64ToArrayBuffer(encryptedData.str)
  IN IF ~ mk.ok
     THEN [ok |-> FALSE, value |-> Null, err |-> DECRYPT_FAILED,
           steps |-> << "getMasterKey" >>]
     ELSE IF ~ saltArray.ok \/ ~ ivArray.ok \/ ~ dataArray.ok
     THEN [ok |-> FALSE, value |-> Null, err |-> DECRYPT_FAILED,
           steps |-> << "getMasterKey" >>]
     ELSE
       LET secureKey == deriveKeyFromPasscode(mk.value, saltArray.bytes)
           found == SubtleDecrypt(led, secureKey, ivArray.bytes, dataArray.bytes)
       IN IF found = {}
          THEN [ok |-> FALSE, value |-> Null, err |-> DECRYPT_FAILED,
                steps |-> << "getMasterKey", "deriveKey", "subtle.decrypt" >>]
          ELSE [ok |-> TRUE,
                value |-> Str(TextDecode(led[CHOOSE k \in found : TRUE].pt)),
                err |-> NoError,
                steps |-> << "getMasterKey", "deriveKey", "subtle.decrypt" >>]

\* EncryptionService.encryptForStorage: the envelope around encrypt's result
encryptForStorage(data, ctx, up, led, n, prod, t) ==
  LET encryptionResult == encrypt(data, ctx, up, led, n, prod)
  IN IF ~ encryptionResult.ok THEN encryptionResult
     ELSE [encryptionResult EXCEPT
             !.value = [encryptedContent |-> encryptionResult.value.encryptedData,
                        iv |-> encryptionResult.value.iv,
                        salt |-> encryptionResult.value.salt,
                        timestamp |-> Num(t),
                        version |-> VERSION]]

\* the version looked at only after the decryption
decryptThenCheckVersion(env, ctx, up, led) ==
  LET dec == decrypt(env.encryptedContent, env.iv, env.salt, ctx, up, led)
  IN IF ~ dec.ok THEN dec
     ELSE IF env.version # VERSION
     THEN [ok |-> FALSE, value |-> Null, err |-> INCOMPATIBLE_VERSION,
           steps |-> dec.steps]
     ELSE dec

\* EncryptionService.decryptFromStorage: version check, then decrypt
decryptFromStorage(env, ctx, up, led) ==
  IF env.version # VERSION
  THEN [ok |-> FALSE, value |-> Null, err |-> INCOMPATIBLE_VERSION,
        steps |-> << >>]
  ELSE decrypt(env.encryptedContent, env.iv, env.salt, ctx, up, led)

\* ---------------------------------------------------------- storageService
\* a hash that is the same for every passcode
SHA256Colliding(passcode) == Str(<< 35 >>)

\* CryptoJS.SHA256(passcode).toString()
SHA256(passcode) == Str(<< 35 >> \o passcode.str)

NoSettings ==
  [passcodeEnabled |-> Undefined, passcodeHash |-> Undefined,
   lockoutDelay |-> Undefined, lastActiveTime |-> Undefined,
   passcode |-> Undefined, apiProviders |-> Undefined,
   encryptionEnabled |-> Undefined, encryptionVersion |-> Undefined,
   lastEncryptionCheck |-> Undefined]

NoProfile ==
  [personalInfo |-> Undefined, resumes |-> Undefined, settings |-> Undefined,
   encryptedProfile |-> Undefined, encryptionEnabled |-> Undefined,
   lastEncryptionCheck |-> Undefined]

NoJobsData ==
  [jobs |-> Undefined, encryptedJobs |-> Undefined,
   encryptionEnabled |-> Undefined, timestamp |-> Undefined]

\* the passcode handling without the final delete of settings.passcode
profileToSaveKeepingPasscode(data) ==
  LET st == data.settings
  IN [data EXCEPT !.settings =
        IF Truthy(st.passcodeEnabled) /\ Truthy(st.passcode)
        THEN [st EXCEPT !.passcodeHash = SHA256(st.passcode)]
        ELSE IF ~ Truthy(st.passcodeEnabled)
        THEN [st EXCEPT !.passcodeHash = Undefined]
        ELSE st]

\* the passcode handling without the delete of the hash of a disabled passcode
profileToSaveKeepingHash(data) ==
  LET st == data.settings
      hashed ==
        IF Truthy(st.passcodeEnabled) /\ Truthy(st.passcode)
        THEN [st EXCEPT !.passcodeHash = SHA256(st.passcode)]
        ELSE st
  IN [data EXCEPT !.settings = [hashed EXCEPT !.passcode = Undefined]]

\* the profile object after the passcode handling at the top of
\* saveUserProfile: hash set or deleted, plaintext passcode deleted
profileToSave(data) ==
  LET st == data.settings
      hashed ==
        IF Truthy(st.passcodeEnabled) /\ Truthy(st.passcode)
        THEN [st EXCEPT !.passcodeHash = SHA256(st.passcode)]
        ELSE IF ~ Truthy(st.passcodeEnabled)
        THEN [st EXCEPT !.passcodeHash = Undefined]
        ELSE st
  IN [data EXCEPT !.settings = [hashed EXCEPT !.passcode = Undefined]]

passcodeForEncryption(data) ==
  IF Truthy(data.settings.passcodeEnabled) /\ Truthy(data.settings.passcode)
  THEN data.settings.passcode
  ELSE Null

unencryptedProfile(data) ==
  [profileToSave(data) EXCEPT !.settings.encryptionEnabled = False]

\* the outcome of a call as kept in ret
Ret(op, arg, ok, value, err, steps, writes) ==
  [op |-> op, arg |-> arg, ok |-> ok, value |-> value, err |-> err,
   steps |-> steps, writes |-> writes]

\* chrome.storage.local.set({ userProfile: v }) and its callback
SetUserProfile(v, storageOk) ==
  userProfile' = IF storageOk THEN v ELSE userProfile

\* a promise that resolves whatever the storage callback reports
SettledAnyway(storageOk) == [ok |-> TRUE, err |-> NoError]

\* the promise settles from the storage callback: chrome.runtime.lastError
Settled(storageOk) ==
  IF storageOk THEN [ok |-> TRUE, err |-> NoError]
  ELSE [ok |-> FALSE, err |-> "runtime.lastError"]

\* saveUserProfile once keyAvailable was found: the profile text is
\* encrypted, or encryptForStorage throws and the catch block rejects or
\* falls back; the way taken, the record to write, and the cipher's new
\* ledger, rng and history
saveUserProfileEncrypted(data, ctx, up, led, n, prod, t) ==
  LET plain == [way |-> "unencrypted", value |-> unencryptedProfile(data),
                ledger |-> led, rng |-> n, produced |-> prod]
      enc == encryptForStorage(StringifyProfile(profileToSave(data)),
                               ctx, up, led, n, prod, t)
  IN IF enc.ok
     THEN [way |-> "encrypted",
           value |-> [NoProfile EXCEPT
                        !.encryptedProfile = enc.value,
                        !.encryptionEnabled = True,
                        !.lastEncryptionCheck = Num(t)],
           ledger |-> enc.ledger, rng |-> enc.rng,
           produced |-> enc.produced]
     ELSE IF enc.err = PASSCODE_REQUIRED
     THEN [plain EXCEPT !.way = "rejected"]
     ELSE [plain EXCEPT !.way = "fallback"]

\* saveUserProfile from the setup status to the storage write it issues
saveUserProfilePlan(data, ctx, up, led, n, prod, t, wc) ==
  IF wc /\ getEncryptionSetupStatus(ctx, up).keyAvailable
  THEN saveUserProfileEncrypted(data, ctx, up, led, n, prod, t)
  ELSE [way |-> "unencrypted", value |-> unencryptedProfile(data),
        ledger |-> led, rng |-> n, produced |-> prod]

\* a save whose encrypted way leaves the passcode in the context
settleHoldingContext(data, plan) ==
  /\ currentPasscodeContext' =
       IF plan.way = "encrypted"
       THEN plan.produced[Len(plan.produced)].passcode ELSE Null
  /\ IF plan.way = "rejected"
     THEN /\ UNCHANGED userProfile
          /\ ret' = Ret("saveUserProfile", data, FALSE, Undefined,
                        PASSCODE_REQUIRED, << "rejected" >>, 0)
     ELSE \E storageOk \in BOOLEAN :
            /\ SetUserProfile(plan.value, storageOk)
            /\ ret' = Ret("saveUserProfile", data,
                          Settled(storageOk).ok, Undefined,
                          Settled(storageOk).err, << plan.way >>, 1)
  /\ ledger' = plan.ledger
  /\ rng' = plan.rng
  /\ produced' = plan.produced
  /\ UNCHANGED << jobLists, app, calls, webCrypto, now >>

\* saveUserProfile from its plan on: the rejection, or the storage write and
\* its callback; every way sets the passcode context to null
settleSaveUserProfile(data, plan) ==
  /\ currentPasscodeContext' = Null
  /\ IF plan.way = "rejected"
     THEN /\ UNCHANGED userProfile
          /\ ret' = Ret("saveUserProfile", data, FALSE, Undefined,
                        PASSCODE_REQUIRED, << "rejected" >>, 0)
     ELSE \E storageOk \in BOOLEAN :
            /\ SetUserProfile(plan.value, storageOk)
            /\ ret' = Ret("saveUserProfile", data,
                          Settled(storageOk).ok, Undefined,
                          Settled(storageOk).err, << plan.way >>, 1)
  /\ ledger' = plan.ledger
  /\ rng' = plan.rng
  /\ produced' = plan.produced
  /\ UNCHANGED << jobLists, app, calls, webCrypto, now >>

\* saveUserProfile(data)
SaveUserProfile(data) ==
  LET ctx == IF webCrypto /\ Truthy(passcodeForEncryption(data))
             THEN passcodeForEncryption(data)
             ELSE currentPasscodeContext
  IN /\ (webCrypto /\ getEncryptionSetupStatus(ctx, userProfile).keyAvailable)
          => Len(ledger) < MaxEncryptions
     /\ \E plan \in { saveUserProfilePlan(data, ctx, userProfile, ledger, rng,
                                          produced, now, webCrypto) } :
          settleSaveUserProfile(data, plan)

\* a catch block that rejects with every encryption error
saveUserProfilePlanRejecting(data, ctx, up, led, n, prod, wc) ==
  [way |-> IF wc /\ getEncryptionSetupStatus(ctx, up).keyAvailable
           THEN "rejected" ELSE "unencrypted",
   value |-> unencryptedProfile(data), ledger |-> led,
   rng |-> IF wc /\ getEncryptionSetupStatus(ctx, up).keyAvailable
              /\ getMasterKey(ctx, up).ok
           THEN n + 2 ELSE n,
   produced |-> prod]

\* the plan of saveUserProfile when crypto.subtle rejects inside encrypt:
\* salt and IV are drawn, encrypt throws 'Failed to encrypt data' and the
\* catch block writes the plaintext record
saveUserProfilePlanOnError(data, ctx, up, led, n, prod, wc) ==
  [way |-> IF wc /\ getEncryptionSetupStatus(ctx, up).keyAvailable
           THEN IF getMasterKey(ctx, up).ok THEN "fallback" ELSE "rejected"
           ELSE "unencrypted",
   value |-> unencryptedProfile(data), ledger |-> led,
   rng |-> IF wc /\ getEncryptionSetupStatus(ctx, up).keyAvailable
              /\ getMasterKey(ctx, up).ok
           THEN n + 2 ELSE n,
   produced |-> prod]

\* saveUserProfile(data) in a run where crypto.subtle rejects
SaveUserProfileOnError(data) ==
  \E plan \in { saveUserProfilePlanOnError(
                  data,
                  IF webCrypto /\ Truthy(passcodeForEncryption(data))
                  THEN passcodeForEncryption(data)
                  ELSE currentPasscodeContext,
                  userProfile, ledger, rng, produced, webCrypto) } :
    /\ plan.way \in { "fallback", "rejected" }
    /\ plan.rng <= 2 * MaxEncryptions
    /\ settleSaveUserProfile(data, plan)

\* getUserProfile(): the value the promise resolves with
getUserProfileResult(ctx, up, led, t) ==
  IF up # Undefined THEN
    IF up.encryptedProfile # Undefined THEN
      IF getEncryptionSetupStatus(ctx, up).keyAvailable THEN
        LET dec == decryptFromStorage(up.encryptedProfile, ctx, up, led)
        IN IF ~ dec.ok THEN Null
           ELSE
             LET profile == ParseProfile(dec.value)
                 st == IF profile.settings = Undefined
                       THEN [NoSettings EXCEPT !.passcodeEnabled = True,
                                               !.apiProviders = Arr(<< >>)]
                       ELSE profile.settings
             IN [profile EXCEPT
                   !.settings = [st EXCEPT
                      !.encryptionEnabled = True,
                      !.encryptionVersion = up.encryptedProfile.version,
                      !.lastEncryptionCheck = Num(t)],
                   !.resumes = IF profile.resumes \in {Undefined, Null}
                               THEN Arr(<< >>) ELSE profile.resumes]
      ELSE Null
    ELSE
      LET st == IF up.settings = Undefined
                THEN [NoSettings EXCEPT !.passcodeEnabled = False,
                                        !.apiProviders = Arr(<< >>)]
                ELSE up.settings
      IN [up EXCEPT
            !.settings = [st EXCEPT !.encryptionEnabled = False],
            !.resumes = IF up.resumes \in {Undefined, Null}
                        THEN Arr(<< >>) ELSE up.resumes]
  ELSE Null

GetUserProfile ==
  /\ ret' = Ret("getUserProfile", Undefined, TRUE,
                getUserProfileResult(currentPasscodeContext, userProfile,
                                     ledger, now),
                NoError, << >>, 0)
  /\ UNCHANGED << currentPasscodeContext, userProfile, jobLists, app, calls, webCrypto,
                  now, ledger, rng, produced >>

\* 'undefined' as code units, what a template literal prints for undefined
UndefinedText == << 117, 110, 100, 101, 102, 105, 110, 101, 100 >>

TemplateText(v) == IF v = Undefined THEN UndefinedText ELSE v.str

IsAlphaNumeric(c) ==
  (c >= 48 /\ c <= 57) \/ (c >= 65 /\ c <= 90) \/ (c >= 97 /\ c <= 122)

\* btoa(text).replace(/[^a-zA-Z0-9]/g, '').substring(0, 16)
jobIdOf(text) ==
  LET clean == SelectSeq(arrayBufferToBase64(text), IsAlphaNumeric)
  IN Str(SubSeq(clean, 1, IF Len(clean) < 16 THEN Len(clean) ELSE 16))

\* ids generated for every job, also for a job that has one
ensureJobIdsForAll(jobs) ==
  Arr([i \in 1..Len(jobs.arr) |->
         [jobs.arr[i] EXCEPT !.id =
            IF Truthy(jobs.arr[i].url) THEN jobIdOf(jobs.arr[i].url.str)
            ELSE jobIdOf(TemplateText(jobs.arr[i].title) \o << 45 >>
                           \o TemplateText(jobs.arr[i].company) \o << 45 >>)]])

\* ensureJobIds
ensureJobIds(jobs) ==
  Arr([i \in 1..Len(jobs.arr) |->
         IF ~ Truthy(jobs.arr[i].id)
         THEN [jobs.arr[i] EXCEPT !.id =
                 IF Truthy(jobs.arr[i].url) THEN jobIdOf(jobs.arr[i].url.str)
                 ELSE jobIdOf(TemplateText(jobs.arr[i].title) \o << 45 >>
                                \o TemplateText(jobs.arr[i].company) \o << 45 >>)]
         ELSE jobs.arr[i]])

\* getJobsForResume(resumeId): the value the promise resolves with
getJobsForResumeResult(resumeId, ctx, up, lists, led) ==
  LET jobsData == lists[resumeId]
  IN IF jobsData = Undefined THEN Arr(<< >>)
     ELSE IF jobsData.encryptedJobs # Undefined THEN
       IF getEncryptionSetupStatus(ctx, up).keyAvailable THEN
         LET dec == decryptFromStorage(jobsData.encryptedJobs, ctx, up, led)
         IN IF ~ dec.ok THEN Arr(<< >>) ELSE ensureJobIds(ParseJobs(dec.value))
       ELSE Arr(<< >>)
     ELSE ensureJobIds(IF jobsData.jobs = Undefined THEN Arr(<< >>)
                       ELSE jobsData.jobs)

GetJobsForResume(resumeId) ==
  /\ ret' = Ret("getJobsForResume", resumeId, TRUE,
                getJobsForResumeResult(resumeId, currentPasscodeContext,
                                       userProfile, jobLists, ledger),
                NoError, << >>, 0)
  /\ UNCHANGED << currentPasscodeContext, userProfile, jobLists, app, calls, webCrypto,
                  now, ledger, rng, produced >>

unencryptedJobs(jobs, t) ==
  [NoJobsData EXCEPT !.jobs = ensureJobIds(jobs), !.encryptionEnabled = False,
                     !.timestamp = Num(t)]

\* chrome.storage.local.set({ jobLists: newJobLists }) and its callback
SetJobLists(resumeId, jobsStorageData, storageOk) ==
  jobLists' = IF storageOk
              THEN [jobLists EXCEPT ![resumeId] = jobsStorageData]
              ELSE jobLists

\* saveJobsForResume once keyAvailable was found
saveJobsForResumeEncrypted(jobs, ctx, up, led, n, prod, t) ==
  LET plain == [way |-> "unencrypted", value |-> unencryptedJobs(jobs, t),
                ledger |-> led, rng |-> n, produced |-> prod]
      enc == encryptForStorage(StringifyJobs(ensureJobIds(jobs)),
                               ctx, up, led, n, prod, t)
  IN IF enc.ok
     THEN [way |-> "encrypted",
           value |-> [NoJobsData EXCEPT
                        !.encryptedJobs = enc.value,
                        !.encryptionEnabled = True,
                        !.timestamp = Num(t)],
           ledger |-> enc.ledger, rng |-> enc.rng,
           produced |-> enc.produced]
     ELSE IF enc.err = PASSCODE_REQUIRED
     THEN [plain EXCEPT !.way = "rejected"]
     ELSE [plain EXCEPT !.way = "fallback"]

\* saveJobsForResume from the setup status to the storage write it issues
saveJobsForResumePlan(jobs, ctx, up, led, n, prod, t) ==
  IF getEncryptionSetupStatus(ctx, up).keyAvailable
  THEN saveJobsForResumeEncrypted(jobs, ctx, up, led, n, prod, t)
  ELSE [way |-> "unencrypted", value |-> unencryptedJobs(jobs, t),
        ledger |-> led, rng |-> n, produced |-> prod]

\* saveJobsForResume(resumeId, jobs)
SaveJobsForResume(resumeId, jobs) ==
  LET arg == [resumeId |-> resumeId, jobs |-> jobs]
  IN /\ getEncryptionSetupStatus(currentPasscodeContext, userProfile).keyAvailable
          => Len(ledger) < MaxEncryptions
     /\ \E plan \in { saveJobsForResumePlan(jobs, currentPasscodeContext,
                                            userProfile, ledger, rng,
                                            produced, now) } :
          /\ IF plan.way = "rejected"
             THEN /\ UNCHANGED jobLists
                  /\ ret' = Ret("saveJobsForResume", arg, FALSE, Undefined,
                                PASSCODE_REQUIRED, << "rejected" >>, 0)
             ELSE \E storageOk \in BOOLEAN :
                    /\ SetJobLists(resumeId, plan.value, storageOk)
                    /\ ret' = Ret("saveJobsForResume", arg,
                                  Settled(storageOk).ok, Undefined,
                                  Settled(storageOk).err, << plan.way >>, 1)
          /\ ledger' = plan.ledger
          /\ rng' = plan.rng
          /\ produced' = plan.produced
     /\ UNCHANGED << currentPasscodeContext, userProfile, app, calls,
                     webCrypto, now >>

\* ------------------------------------------------------------ initial state
\* App before its first effect has run: useState defaults
NoApp == [isLocked |-> FALSE, storedPasscodeHash |-> Null, loading |-> TRUE]

\* passcodes '1234' and '9999'
K1 == Str(<< 49, 50, 51, 52 >>)
K2 == Str(<< 57, 57, 57, 57 >>)

\* resume 'r1'
R1 == Str(<< 114, 49 >>)

ResumeIds == { R1 }

Profile(name, resumes, settings) ==
  [NoProfile EXCEPT !.personalInfo = name, !.resumes = resumes,
                    !.settings = settings]

\* records written before encryption support: no encryption properties,
\* settings or resumes possibly missing, the passcode possibly kept in settings
LegacyProfiles ==
  { Profile(Str(<< 65 >>), Undefined, Undefined),
    Profile(Str(<< 65 >>), Arr(<< [id |-> R1] >>),
            [NoSettings EXCEPT !.passcodeEnabled = False]),
    Profile(Str(<< 65 >>), Arr(<< [id |-> R1] >>),
            [NoSettings EXCEPT !.passcodeEnabled = True,
                               !.passcodeHash = SHA256(K1),
                               !.passcode = K1]),
    Profile(Str(<< 65 >>), Arr(<< >>),
            [NoSettings EXCEPT !.passcodeEnabled = True,
                               !.passcodeHash = SHA256(K1)]) }

Job(id, title, company, url) ==
  [id |-> id, title |-> title, company |-> company, url |-> url]

\* a job without an id ('T' at 'C', url 'u1'), a job with the id 'j1'
JobWithoutId == Job(Undefined, Str(<< 84 >>), Str(<< 67 >>), Str(<< 117, 49 >>))
JobWithId == Job(Str(<< 106, 49 >>), Str(<< 84 >>), Str(<< 67 >>), Str(<< 117, 50 >>))

JobInputs == { Arr(<< JobWithoutId >>), Arr(<< JobWithId >>) }

LegacyJobsData ==
  { Undefined,
    [NoJobsData EXCEPT !.jobs = Arr(<< JobWithoutId >>)],
    [NoJobsData EXCEPT !.jobs = Arr(<< JobWithId >>)] }

\* what callers pass to saveUserProfile: passcode protection off, off with
\* a stale passcode and hash, on with a newly entered passcode, on with an
\* empty passcode, on with the stored hash only
SaveInputs ==
  { Profile(Str(<< 66 >>), Arr(<< [id |-> R1] >>),
            [NoSettings EXCEPT !.passcodeEnabled = False]),
    Profile(Str(<< 65 >>), Arr(<< [id |-> R1] >>),
            [NoSettings EXCEPT !.passcodeEnabled = False,
                               !.passcodeHash = SHA256(K1),
                               !.passcode = K1]),
    Profile(Str(<< 65 >>), Arr(<< [id |-> R1] >>),
            [NoSettings EXCEPT !.passcodeEnabled = True,
                               !.passcode = K1]),
    Profile(Str(<< 65 >>), Arr(<< [id |-> R1] >>),
            [NoSettings EXCEPT !.passcodeEnabled = True,
                               !.passcode = Str(<< >>)]),
    Profile(Str(<< 65 >>), Arr(<< [id |-> R1] >>),
            [NoSettings EXCEPT !.passcodeEnabled = True,
                               !.passcodeHash = SHA256(K1),
                               !.encryptionEnabled = False]) }

Init ==
  /\ currentPasscodeContext = Null
  /\ userProfile \in {Undefined} \cup LegacyProfiles
  /\ jobLists \in [ResumeIds -> LegacyJobsData]
  /\ webCrypto \in BOOLEAN
  /\ now = 1
  /\ ledger = << >>
  /\ rng = 0
  /\ produced = << >>
  /\ ret = Ret("none", Undefined, TRUE, Undefined, NoError, << >>, 0)
  /\ app = NoApp
  /\ calls = << >>

Next ==
  \/ \E data \in SaveInputs : SaveUserProfile(data)
  \/ GetUserProfile
  \/ \E r \in ResumeIds : GetJobsForResume(r)
  \/ \E r \in ResumeIds, jobs \in JobInputs : SaveJobsForResume(r, jobs)

Spec == Init /\ [][Next]_vars

\* ------------------------------------------------- properties of the storage
Occurs(pattern, text) ==
  \E i \in 1..(Len(text) - Len(pattern) + 1) :
    SubSeq(text, i, i + Len(pattern) - 1) = pattern

\* the JSON text '"passcode":'
PasscodeMember == JsonString(PropertyName.passcode) \o << 58 >>

EncryptedProfileStored ==
  userProfile # Undefined /\ userProfile.encryptedProfile # Undefined

LegacyProfileStored ==
  userProfile # Undefined /\ userProfile.encryptedProfile = Undefined

EncryptedJobsStored(resumeId) ==
  jobLists[resumeId] # Undefined /\ jobLists[resumeId].encryptedJobs # Undefined

LegacyJobsStored(resumeId) ==
  jobLists[resumeId] # Undefined /\ jobLists[resumeId].encryptedJobs = Undefined

\* C3: every encryption draws a salt and an IV of its own: no two produced
\* envelopes share a salt or an IV, and no (derived key, IV) pair is used
\* for two encryptions, also when the same text is encrypted again under the
\* same passcode (getRandomValues taken as never repeating a value).
C3_FreshSaltAndIV ==
  /\ rng = 2 * Len(ledger)
  /\ \A i, j \in 1..Len(produced) :
       i < j =>
         /\ produced[i].result.salt # produced[j].result.salt
         /\ produced[i].result.iv # produced[j].result.iv
         /\ << ledger[i].key, ledger[i].iv >> # << ledger[j].key, ledger[j].iv >>

\* the same text encrypted twice under the same passcode
C3_Witness ==
  /\ Len(produced) = 2
  /\ produced[1].data = produced[2].data
  /\ produced[1].passcode = produced[2].passcode

\* C4: a saveUserProfile call whose data has passcodeEnabled and a non-empty
\* passcode, with Web Crypto available and the storage write successful,
\* leaves userProfile stored as an encrypted envelope.
C4_SaveWithPasscodeStoresEnvelope ==
  (/\ ret.op = "saveUserProfile"
   /\ ret.ok
   /\ webCrypto
   /\ ret.arg.settings.passcodeEnabled = True
   /\ IsStr(ret.arg.settings.passcode)
   /\ ret.arg.settings.passcode.str # << >>)
  => EncryptedProfileStored

\* C5: a successful saveUserProfile on a stored encrypted record leaves an
\* encrypted record.
C5_EncryptedStaysEncrypted ==
  [][(EncryptedProfileStored /\ ret'.op = "saveUserProfile" /\ ret'.ok)
       => userProfile'.encryptedProfile # Undefined]_vars

C7_ReadFailuresExplicit ==
  /\ (/\ ret.op = "getUserProfile"
      /\ EncryptedProfileStored
      /\ ~ decryptFromStorage(userProfile.encryptedProfile,
                              currentPasscodeContext, userProfile, ledger).ok)
       => ~ (ret.ok /\ ret.value = Null)
  /\ (/\ ret.op = "getJobsForResume"
      /\ EncryptedJobsStored(ret.arg)
      /\ ~ decryptFromStorage(jobLists[ret.arg].encryptedJobs,
                              currentPasscodeContext, userProfile, ledger).ok)
       => ~ (ret.ok /\ ret.value = Arr(<< >>))

\* C18: a saveUserProfile or saveJobsForResume call whose storage write
\* reported runtime.lastError is rejected with that error after exactly one
\* write; a call that resolved made exactly one write and storage holds what
\* it wrote (the envelope of its encryption, or the plaintext record).
C18_StorageFailuresPropagated ==
  /\ ret.op \in { "saveUserProfile", "saveJobsForResume" } =>
       /\ ret.err = "runtime.lastError" => (~ ret.ok /\ ret.writes = 1)
       /\ ret.ok => ret.writes = 1
  /\ (ret.op = "saveUserProfile" /\ ret.ok) =>
       IF ret.steps = << "encrypted" >>
       THEN /\ EncryptedProfileStored
            /\ userProfile.encryptedProfile.encryptedContent
                 = produced[Len(produced)].result.encryptedData
       ELSE userProfile = unencryptedProfile(ret.arg)
  /\ (ret.op = "saveJobsForResume" /\ ret.ok) =>
       IF ret.steps = << "encrypted" >>
       THEN /\ EncryptedJobsStored(ret.arg.resumeId)
            /\ jobLists[ret.arg.resumeId].encryptedJobs.encryptedContent
                 = produced[Len(produced)].result.encryptedData
       ELSE jobLists[ret.arg.resumeId] = unencryptedJobs(ret.arg.jobs, now)

\* the write of an encrypted profile failed and the save was rejected, the
\* record stored before is still there
C18_Witness ==
  /\ ret.op = "saveUserProfile"
  /\ ret.steps = << "encrypted" >>
  /\ ret.err = "runtime.lastError"
  /\ ~ ret.ok
  /\ ret.writes = 1
  /\ LegacyProfileStored

DefaultSettings ==
  [NoSettings EXCEPT !.passcodeEnabled = False, !.apiProviders = Arr(<< >>)]

Plaintexts ==
  { Str(<< 233, 55357, 56832 >>), Str(<< 65279, 97 >>), Str(<< 55296 >>) }

PasscodeInputs == { Null, K1, K2 }

\* '2.0'
OtherVersions == { Str(<< 50, 46, 48 >>) }

\* 'invalid_base64_data!@#'
InvalidBase64 ==
  Str(<< 105, 110, 118, 97, 108, 105, 100, 95, 98, 97, 115, 101, 54, 52, 95,
         100, 97, 116, 97, 33, 64, 35 >>)

\* text with its first character replaced by another base64 character
OtherFirstChar(text) ==
  Str([text.str EXCEPT ![1] = IF text.str[1] = 65 THEN 66 ELSE 65])

\* text whose last character before the padding differs only in the bits
\* that a short last group does not use
OtherUnusedBits(text) ==
  LET t == text.str
      k == IF t[Len(t) - 1] = 61 THEN Len(t) - 2 ELSE Len(t) - 1
  IN Str([t EXCEPT ![k] = Base64Char(Base64Value(t[k]) + 1)])

Alterations ==
  { "none", "data", "iv", "salt", "saltUnusedBits", "saltWhitespace",
    "malformed" }

Altered(r, how) ==
  IF how = "data" THEN [r EXCEPT !.encryptedData = OtherFirstChar(r.encryptedData)]
  ELSE IF how = "iv" THEN [r EXCEPT !.iv = OtherFirstChar(r.iv)]
  ELSE IF how = "salt" THEN [r EXCEPT !.salt = OtherFirstChar(r.salt)]
  ELSE IF how = "saltUnusedBits" THEN [r EXCEPT !.salt = OtherUnusedBits(r.salt)]
  ELSE IF how = "saltWhitespace" THEN [r EXCEPT !.salt = Str(r.salt.str \o << 10 >>)]
  ELSE IF how = "malformed" THEN [r EXCEPT !.encryptedData = InvalidBase64]
  ELSE r

\* what a caller can pass to decrypt: a produced result, as it is or altered
DecryptInputs ==
  { Altered(produced[k].result, how) :
      k \in 1..Len(produced), how \in Alterations }

Envelope(r, version, t) ==
  [encryptedContent |-> r.encryptedData, iv |-> r.iv, salt |-> r.salt,
   timestamp |-> Num(t), version |-> version]

EnvelopeInputs ==
  { Envelope(Altered(produced[k].result, how), v, now) :
      k \in 1..Len(produced), how \in {"none", "data"},
      v \in {VERSION, Undefined} \cup OtherVersions }

SetPasscodeContext(passcode) ==
  /\ currentPasscodeContext' = passcode
  /\ ret' = Ret("setPasscodeContext", passcode, TRUE, Undefined, NoError,
                << >>, 0)
  /\ UNCHANGED << userProfile, jobLists, app, calls, webCrypto, now, ledger, rng, produced >>

Encrypt(data) ==
  /\ Len(ledger) < MaxServiceEncryptions
  /\ \E r \in { encrypt(data, currentPasscodeContext, userProfile, ledger,
                        rng, produced) } :
       /\ ret' = Ret("encrypt", data, r.ok, r.value, r.err, r.steps, 0)
       /\ ledger' = r.ledger
       /\ rng' = r.rng
       /\ produced' = r.produced
  /\ UNCHANGED << currentPasscodeContext, userProfile, jobLists, app, calls, webCrypto, now >>

Decrypt(input) ==
  /\ \E r \in { decrypt(input.encryptedData, input.iv, input.salt,
                        currentPasscodeContext, userProfile, ledger) } :
       ret' = Ret("decrypt", input, r.ok, r.value, r.err, r.steps, 0)
  /\ UNCHANGED << currentPasscodeContext, userProfile, jobLists, app, calls, webCrypto,
                  now, ledger, rng, produced >>

EncryptForStorage(data) ==
  /\ Len(ledger) < MaxServiceEncryptions
  /\ \E r \in { encryptForStorage(data, currentPasscodeContext, userProfile,
                                  ledger, rng, produced, now) } :
       /\ ret' = Ret("encryptForStorage", data, r.ok, r.value, r.err, r.steps, 0)
       /\ ledger' = r.ledger
       /\ rng' = r.rng
       /\ produced' = r.produced
  /\ UNCHANGED << currentPasscodeContext, userProfile, jobLists, app, calls, webCrypto, now >>

DecryptFromStorage(env) ==
  /\ \E r \in { decryptFromStorage(env, currentPasscodeContext, userProfile,
                                   ledger) } :
       ret' = Ret("decryptFromStorage", env, r.ok, r.value, r.err, r.steps, 0)
  /\ UNCHANGED << currentPasscodeContext, userProfile, jobLists, app, calls, webCrypto,
                  now, ledger, rng, produced >>

\* the service with nothing stored, or with a legacy profile that still
\* holds its passcode
InitService ==
  /\ currentPasscodeContext = Null
  /\ userProfile \in
       { Undefined,
         Profile(Str(<< 65 >>), Arr(<< >>),
                 [NoSettings EXCEPT !.passcodeEnabled = True,
                                    !.passcodeHash = SHA256(K1),
                                    !.passcode = K1]) }
  /\ jobLists = [r \in ResumeIds |-> Undefined]
  /\ webCrypto = TRUE
  /\ now = 1
  /\ ledger = << >>
  /\ rng = 0
  /\ produced = << >>
  /\ ret = Ret("none", Undefined, TRUE, Undefined, NoError, << >>, 0)
  /\ app = NoApp
  /\ calls = << >>

NextService ==
  \/ \E passcode \in PasscodeInputs : SetPasscodeContext(passcode)
  \/ \E data \in Plaintexts : Encrypt(data)
  \/ \E input \in DecryptInputs : Decrypt(input)
  \/ \E data \in Plaintexts : EncryptForStorage(data)
  \/ \E env \in EnvelopeInputs : DecryptFromStorage(env)

SpecService == InitService /\ [][NextService]_vars

\* ------------------------------------------------- properties of the service
\* the passcode getMasterKey yields in this state
AvailablePasscode == getMasterKey(currentPasscodeContext, userProfile)

\* the (encryptedData, iv, salt) of a decrypt or decryptFromStorage argument
FieldsOf(op, arg) ==
  IF op = "decrypt" THEN arg
  ELSE [encryptedData |-> arg.encryptedContent, iv |-> arg.iv, salt |-> arg.salt]

\* the bytes the three base64 texts stand for
BytesOf(r) ==
  << base64ToArrayBuffer(r.encryptedData.str), base64ToArrayBuffer(r.iv.str),
     base64ToArrayBuffer(r.salt.str) >>

\* C1: decrypt of what encrypt(P) returned, under the same passcode held in
\* the context, returns exactly P; so does decryptFromStorage of the
\* envelope of encryptForStorage(P).
C1_RoundTrip ==
  \A k \in 1..Len(produced) :
    (/\ ret.op \in { "decrypt", "decryptFromStorage" }
     /\ FieldsOf(ret.op, ret.arg) = produced[k].result
     /\ ret.op = "decryptFromStorage" => ret.arg.version = VERSION
     /\ currentPasscodeContext = produced[k].passcode)
    => (ret.ok /\ ret.value = produced[k].data)

\* C2 as stated: an envelope whose texts differ from every produced one, or
\* that was produced under another passcode than the available one, fails.
C2_AlteredEnvelopeFails ==
  (/\ ret.op \in { "decrypt", "decryptFromStorage" }
   /\ \A k \in 1..Len(produced) :
        \/ FieldsOf(ret.op, ret.arg) # produced[k].result
        \/ ~ AvailablePasscode.ok
        \/ AvailablePasscode.value # produced[k].passcode)
  => (~ ret.ok /\ ret.err # NoError /\ ret.value = Null)

\* C2: decrypt and decryptFromStorage return a value only when the three
\* texts decode to exactly the bytes of a result encrypt produced under the
\* passcode now available, and the value is then the decoding of the bytes
\* that were encrypted; every other call fails with an error and no value:
\* another passcode, texts that decode to other bytes, texts that do not
\* decode.
C2_AuthenticatedDecryption ==
  ret.op \in { "decrypt", "decryptFromStorage" } =>
    IF ret.ok
    THEN \E k \in 1..Len(produced) :
           /\ BytesOf(FieldsOf(ret.op, ret.arg)) = BytesOf(produced[k].result)
           /\ AvailablePasscode.ok
           /\ AvailablePasscode.value = produced[k].passcode
           /\ ret.value = Str(TextDecode(TextEncode(produced[k].data.str)))
    ELSE /\ ret.err \in { DECRYPT_FAILED, INCOMPATIBLE_VERSION }
         /\ ret.value = Null

\* an envelope made under '1234' was refused while '9999' is the passcode
C2_Witness ==
  /\ ret.op = "decrypt"
  /\ ~ ret.ok
  /\ \E k \in 1..Len(produced) :
       /\ ret.arg = produced[k].result
       /\ produced[k].passcode = K1
  /\ AvailablePasscode.ok
  /\ AvailablePasscode.value = K2

\* C8: with no passcode available encrypt and decrypt both fail with
\* PASSCODE_REQUIRED_FOR_ENCRYPTION.
C8_LockedMeansKeyUnavailable ==
  (ret.op \in { "encrypt", "decrypt" } /\ ~ AvailablePasscode.ok)
  => (~ ret.ok /\ ret.err = PASSCODE_REQUIRED)

\* C9: decryptFromStorage refuses an envelope whose version is not '1.0'
\* with the incompatible-version error before it looks for a passcode,
\* derives a key or decrypts, whether or not a passcode is available; an
\* envelope made by encryptForStorage carries version '1.0'.
C9_VersionRejection ==
  /\ (ret.op = "decryptFromStorage" /\ ret.arg.version # VERSION)
       => (~ ret.ok /\ ret.err = INCOMPATIBLE_VERSION /\ ret.steps = << >>)
  /\ (ret.op = "encryptForStorage" /\ ret.ok) => ret.value.version = VERSION

\* an envelope of version '2.0', otherwise as produced, was refused while
\* no passcode was available
C9_Witness ==
  /\ ret.op = "decryptFromStorage"
  /\ ret.arg.version \in OtherVersions
  /\ ~ AvailablePasscode.ok
  /\ \E k \in 1..Len(produced) :
       FieldsOf(ret.op, ret.arg) = produced[k].result
  /\ ret.err = INCOMPATIBLE_VERSION

\* -------------------------------------------------------------- migration
\* the storage records and the cipher state a migration works on, with the
\* value it returns and the error it throws
MigrationState(up, lists, led, n, prod) ==
  [userProfile |-> up, jobLists |-> lists, ledger |-> led, rng |-> n,
   produced |-> prod, value |-> False, err |-> NoError]

\* one save made by the migration: the planned record is stored under
\* userProfile (id undefined) or under jobLists[id], unless the save was
\* rejected or the storage write failed, and then the error is thrown
migrationSave(st, plan, storageOk, id) ==
  LET stored == plan.way # "rejected" /\ storageOk
  IN [userProfile |-> IF stored /\ id = Undefined THEN plan.value
                      ELSE st.userProfile,
      jobLists |-> IF stored /\ id # Undefined
                   THEN [st.jobLists EXCEPT ![id] = plan.value]
                   ELSE st.jobLists,
      ledger |-> plan.ledger, rng |-> plan.rng, produced |-> plan.produced,
      value |-> IF stored THEN True ELSE Undefined,
      err |-> IF plan.way = "rejected" THEN PASSCODE_REQUIRED
              ELSE Settled(storageOk).err]

\* migrateToEncryption, the body of the loop over profile.resumes: jobs that
\* were read are saved again when there are any
migrateJobsOf(id, jobs, st, t, jobsOk) ==
  IF Len(jobs.arr) = 0 THEN st
  ELSE migrationSave(st,
                     saveJobsForResumePlan(jobs, Null, st.userProfile,
                                           st.ledger, st.rng, st.produced, t),
                     jobsOk, id)

RECURSIVE migrateJobs(_, _, _, _, _)
migrateJobs(resumes, i, st, t, jobsOk) ==
  IF i > Len(resumes) \/ st.err # NoError THEN st
  ELSE migrateJobs(resumes, i + 1,
                   migrateJobsOf(resumes[i].id,
                                 getJobsForResumeResult(resumes[i].id, Null,
                                                        st.userProfile,
                                                        st.jobLists, st.ledger),
                                 st, t, jobsOk),
                   t, jobsOk)

\* migrateToEncryption after its two checks: saveUserProfile(profile), which
\* leaves the passcode context null, then the jobs of every resume
migrateRecords(profile, ctx, st, t, wc, profileOk, jobsOk) ==
  migrateJobs(profile.resumes.arr, 1,
              migrationSave(st,
                            saveUserProfilePlan(
                              profile,
                              IF wc /\ Truthy(passcodeForEncryption(profile))
                              THEN passcodeForEncryption(profile) ELSE ctx,
                              st.userProfile, st.ledger, st.rng, st.produced,
                              t, wc),
                            profileOk, Undefined),
              t, jobsOk)

\* a migration that takes a profile it cannot read for an empty one and
\* saves without asking for the setup status
migrateWhateverIsRead(profile, ctx, st, t, wc, profileOk, jobsOk) ==
  migrateRecords(IF profile = Null
                 THEN Profile(Undefined, Arr(<< >>), NoSettings) ELSE profile,
                 ctx, st, t, wc, profileOk, jobsOk)

\* migrateToEncryption once the profile is read
migrateProfile(profile, ctx, st, t, wc, profileOk, jobsOk) ==
  IF profile = Null THEN st
  ELSE IF ~ getEncryptionSetupStatus(ctx, st.userProfile).keyAvailable THEN st
  ELSE migrateRecords(profile, ctx, st, t, wc, profileOk, jobsOk)

\* migrateToEncryption()
MigrateToEncryption ==
  \E profileOk, jobsOk \in BOOLEAN :
    \E out \in { migrateProfile(
                   getUserProfileResult(currentPasscodeContext, userProfile,
                                        ledger, now),
                   currentPasscodeContext,
                   MigrationState(userProfile, jobLists, ledger, rng, produced),
                   now, webCrypto, profileOk, jobsOk) } :
      /\ Len(out.ledger) <= MaxEncryptions
      /\ currentPasscodeContext' =
           IF out.value = False THEN currentPasscodeContext ELSE Null
      /\ userProfile' = out.userProfile
      /\ jobLists' = out.jobLists
      /\ ledger' = out.ledger
      /\ rng' = out.rng
      /\ produced' = out.produced
      /\ ret' = Ret("migrateToEncryption", Undefined, out.err = NoError,
                    out.value, out.err, << >>, 0)
      /\ UNCHANGED << app, calls, webCrypto, now >>

NextMigration ==
  \/ MigrateToEncryption
  \/ \E r \in ResumeIds, jobs \in JobInputs : SaveJobsForResume(r, jobs)

SpecMigration == Init /\ [][NextMigration]_vars
\* ------------------------------------------------------------- the session
MaxNow == 5

\* App initialize: the lock test on settings.lockoutDelay and lastActiveTime
lockoutElapsed(settings, t) ==
  \/ (IF settings.lockoutDelay \in {Undefined, Null} THEN 0
      ELSE settings.lockoutDelay.num) = 0
  \/ ~ Truthy(settings.lastActiveTime)
  \/ t - settings.lastActiveTime.num > settings.lockoutDelay.num

\* App initialize: the component state set from the profile that was read
initialized(profile, t) ==
  IF /\ profile # Null
     /\ Truthy(profile.settings.passcodeEnabled)
     /\ Truthy(profile.settings.passcodeHash)
  THEN [isLocked |-> lockoutElapsed(profile.settings, t),
        storedPasscodeHash |-> profile.settings.passcodeHash,
        loading |-> FALSE]
  ELSE [isLocked |-> FALSE, storedPasscodeHash |-> Null, loading |-> FALSE]

\* App useEffect: initialize(), run once after the component is mounted
Initialize ==
  /\ app.loading
  /\ app' = initialized(getUserProfileResult(currentPasscodeContext,
                                             userProfile, ledger, now), now)
  /\ ret' = Ret("initialize", Undefined, TRUE, Undefined, NoError, << >>, 0)
  /\ UNCHANGED << currentPasscodeContext, userProfile, jobLists, calls,
                  webCrypto, now, ledger, rng, produced >>

\* App.handleUnlock(enteredPasscode), offered by the lock screen; with the
\* right passcode the profile that is read gets a new lastActiveTime and is
\* saved with saveUserProfile, whose outcome nobody awaits. ret.value tells
\* whether the passcode was accepted.
HandleUnlock(enteredPasscode) ==
  /\ ~ app.loading
  /\ app.isLocked
  /\ IF Len(enteredPasscode.str) < 4
     THEN /\ ret' = Ret("handleUnlock", enteredPasscode, TRUE, Undefined,
                        NoError, << >>, 0)
          /\ UNCHANGED << currentPasscodeContext, userProfile, app, ledger,
                          rng, produced >>
     ELSE IF SHA256(enteredPasscode) # app.storedPasscodeHash
     THEN /\ ret' = Ret("handleUnlock", enteredPasscode, TRUE, False,
                        NoError, << >>, 0)
          /\ UNCHANGED << currentPasscodeContext, userProfile, app, ledger,
                          rng, produced >>
     ELSE
       /\ app' = [app EXCEPT !.isLocked = FALSE]
       /\ \E profile \in { getUserProfileResult(currentPasscodeContext,
                                                userProfile, ledger, now) } :
            IF profile = Null
            THEN /\ ret' = Ret("handleUnlock", enteredPasscode, TRUE, True,
                               NoError, << >>, 0)
                 /\ UNCHANGED << currentPasscodeContext, userProfile, ledger,
                                 rng, produced >>
            ELSE
              \E plan \in { saveUserProfilePlan(
                              [profile EXCEPT
                                 !.settings.lastActiveTime = Num(now)],
                              IF webCrypto
                                 /\ Truthy(passcodeForEncryption(profile))
                              THEN passcodeForEncryption(profile)
                              ELSE currentPasscodeContext,
                              userProfile, ledger, rng, produced, now,
                              webCrypto) } :
                /\ Len(plan.ledger) <= MaxEncryptions
                /\ currentPasscodeContext' = Null
                /\ IF plan.way = "rejected"
                   THEN /\ UNCHANGED userProfile
                        /\ ret' = Ret("handleUnlock", enteredPasscode, TRUE,
                                      True, NoError, << "rejected" >>, 0)
                   ELSE \E storageOk \in BOOLEAN :
                          /\ SetUserProfile(plan.value, storageOk)
                          /\ ret' = Ret("handleUnlock", enteredPasscode, TRUE,
                                        True, NoError, << plan.way >>, 1)
                /\ ledger' = plan.ledger
                /\ rng' = plan.rng
                /\ produced' = plan.produced
  /\ UNCHANGED << jobLists, calls, webCrypto, now >>

\* the extension page is closed and opened again: the component state and
\* the EncryptionService instance are new, chrome.storage.local is kept
Restart ==
  /\ ~ app.loading
  /\ app' = NoApp
  /\ currentPasscodeContext' = Null
  /\ ret' = Ret("restart", Undefined, TRUE, Undefined, NoError, << >>, 0)
  /\ UNCHANGED << userProfile, jobLists, calls, webCrypto, now, ledger, rng,
                  produced >>

\* time passes
Tick ==
  /\ now < MaxNow
  /\ now' = now + 1
  /\ UNCHANGED << currentPasscodeContext, userProfile, jobLists, app, calls,
                  webCrypto, ledger, rng, produced, ret >>

\* clearEncryptionKeys() / EncryptionService.clearMasterKey(): removes the
\* sessionStorage item 'job_hunter_master_key', which nothing else uses
ClearMasterKey ==
  /\ ret' = Ret("clearMasterKey", Undefined, TRUE, Undefined, NoError,
                << >>, 0)
  /\ UNCHANGED << currentPasscodeContext, userProfile, jobLists, app, calls,
                  webCrypto, now, ledger, rng, produced >>

\* the passcodes a user enters: '1234', '9999', '12'
EnteredPasscodes == { K1, K2, Str(<< 49, 50 >>) }

\* what setPasscodeContext is called with: null, '1234', ''
SessionPasscodes == { Null, K1, Str(<< >>) }

\* 'AA==', the base64 text of one zero byte
ShortSalt == Str(<< 65, 65, 61, 61 >>)

\* what decrypt is called with: a produced result, as it is or with a salt
\* of one byte
SessionDecryptInputs ==
  { produced[k].result : k \in 1..Len(produced) }
    \cup { [produced[k].result EXCEPT !.salt = ShortSalt] :
             k \in 1..Len(produced) }

\* a profile with passcode protection ('1234') and a lockout delay of 2,
\* last active at time 1, as the settings page stores it (passcode removed)
\* or as an older version stored it (passcode kept)
SessionProfiles ==
  { Profile(Str(<< 65 >>), Arr(<< [id |-> R1] >>),
            [NoSettings EXCEPT !.passcodeEnabled = True,
                               !.passcodeHash = SHA256(K1),
                               !.lockoutDelay = Num(2),
                               !.lastActiveTime = Num(1),
                               !.passcode = pc]) : pc \in { Undefined, K1 } }

InitSession ==
  /\ currentPasscodeContext = Null
  /\ userProfile \in SessionProfiles
  /\ jobLists = [r \in ResumeIds |-> Undefined]
  /\ webCrypto = TRUE
  /\ now \in { 2, 4 }
  /\ ledger = << >>
  /\ rng = 0
  /\ produced = << >>
  /\ ret = Ret("none", Undefined, TRUE, Undefined, NoError, << >>, 0)
  /\ app = NoApp
  /\ calls = << >>

NextSession ==
  \/ Initialize
  \/ \E enteredPasscode \in EnteredPasscodes : HandleUnlock(enteredPasscode)
  \/ Tick
  \/ ClearMasterKey
  \/ \E passcode \in SessionPasscodes : SetPasscodeContext(passcode)
  \/ \E data \in { Str(<< 97 >>) } : Encrypt(data)
  \/ \E input \in SessionDecryptInputs : Decrypt(input)
  \/ GetUserProfile

SpecSession == InitSession /\ [][NextSession]_vars

\* ------------------------------------------------------------ the startup
\* profiles with passcode protection ('1234'), last active at time 1, with
\* no lockout delay or a delay of 1, stored with or without the passcode
StartupProfiles ==
  { Profile(Str(<< 65 >>), Arr(<< [id |-> R1] >>),
            [NoSettings EXCEPT !.passcodeEnabled = True,
                               !.passcodeHash = SHA256(K1),
                               !.lockoutDelay = delay,
                               !.lastActiveTime = Num(1),
                               !.passcode = pc]) :
      pc \in { Undefined, K1 }, delay \in { Num(0), Num(1) } }

InitStartup ==
  /\ currentPasscodeContext = Null
  /\ userProfile \in StartupProfiles
  /\ jobLists = [r \in ResumeIds |-> Undefined]
  /\ webCrypto = TRUE
  /\ now \in { 2, 4 }
  /\ ledger = << >>
  /\ rng = 0
  /\ produced = << >>
  /\ ret = Ret("none", Undefined, TRUE, Undefined, NoError, << >>, 0)
  /\ app = NoApp
  /\ calls = << >>

NextStartup ==
  \/ Initialize
  \/ \E enteredPasscode \in EnteredPasscodes : HandleUnlock(enteredPasscode)
  \/ Tick
  \/ Restart

SpecStartup == InitStartup /\ [][NextStartup]_vars

\* ------------------------------------------------- calls that interleave
MaxCalls == 2

\* a saveUserProfile call in flight: its argument, the await it is at
\* ("status": getEncryptionSetupStatus, "write": chrome.storage.local.set,
\* "done"), the way it took, the record it writes and the passcode its
\* encryption was made under
Call(data, pc, way, value, used) ==
  [data |-> data, pc |-> pc, way |-> way, value |-> value, used |-> used]

\* saveUserProfile(data) up to its first await: the passcode found in the
\* data becomes the shared passcode context
SaveUserProfileBegin(data) ==
  /\ Len(calls) < MaxCalls
  /\ IF webCrypto
     THEN /\ currentPasscodeContext' =
               IF Truthy(passcodeForEncryption(data))
               THEN passcodeForEncryption(data) ELSE currentPasscodeContext
          /\ calls' = Append(calls, Call(data, "status", "none", Undefined, Null))
     ELSE /\ currentPasscodeContext' = Null
          /\ calls' = Append(calls, Call(data, "write", "unencrypted",
                                         unencryptedProfile(data), Null))
  /\ UNCHANGED << userProfile, jobLists, app, webCrypto, now, ledger, rng,
                  produced, ret >>

\* the call's state once its plan is made
planned(call, plan) ==
  Call(call.data,
       IF plan.way = "rejected" THEN "done" ELSE "write",
       plan.way, plan.value,
       IF plan.way = "encrypted"
       THEN plan.produced[Len(plan.produced)].passcode ELSE Null)

\* saveUserProfile after await getEncryptionSetupStatus(): with the context
\* as it is now the record is encrypted, or the context is cleared and the
\* plaintext record is written, or the call is rejected
SaveUserProfileStatus(i) ==
  /\ calls[i].pc = "status"
  /\ \E plan \in { saveUserProfilePlan(calls[i].data, currentPasscodeContext,
                                       userProfile, ledger, rng, produced,
                                       now, webCrypto) } :
       /\ Len(plan.ledger) <= MaxEncryptions
       /\ calls' = [calls EXCEPT ![i] = planned(@, plan)]
       /\ currentPasscodeContext' =
            IF plan.way = "encrypted" THEN currentPasscodeContext ELSE Null
       /\ ledger' = plan.ledger
       /\ rng' = plan.rng
       /\ produced' = plan.produced
       /\ ret' = IF plan.way = "rejected"
                 THEN Ret("saveUserProfile", calls[i].data, FALSE, Undefined,
                          PASSCODE_REQUIRED, << "rejected" >>, 0)
                 ELSE ret
  /\ UNCHANGED << userProfile, jobLists, app, webCrypto, now >>

\* the callback of chrome.storage.local.set; the encrypted way clears the
\* passcode context here
SaveUserProfileWritten(i) ==
  /\ calls[i].pc = "write"
  /\ \E storageOk \in BOOLEAN :
       /\ SetUserProfile(calls[i].value, storageOk)
       /\ ret' = Ret("saveUserProfile", calls[i].data, Settled(storageOk).ok,
                     Undefined, Settled(storageOk).err, << calls[i].way >>, 1)
  /\ currentPasscodeContext' =
       IF calls[i].way = "encrypted" THEN Null ELSE currentPasscodeContext
  /\ calls' = [calls EXCEPT ![i].pc = "done"]
  /\ UNCHANGED << jobLists, app, webCrypto, now, ledger, rng, produced >>

\* 'encryption_test_data_12345'
TestData ==
  Str(<< 101, 110, 99, 114, 121, 112, 116, 105, 111, 110, 95, 116, 101, 115,
         116, 95, 100, 97, 116, 97, 95, 49, 50, 51, 52, 53 >>)

\* a validation that leaves the passcode it used in the context
contextLeftSet(originalContext, passcode) == passcode

\* validateEncryption, finally block: the context is put back to null when
\* it held nothing at the start
contextAfterValidation(originalContext, passcode) ==
  IF Truthy(originalContext) THEN originalContext ELSE Null

\* EncryptionService.validateEncryption(): true when there is no passcode,
\* else whether the test data comes back from encrypt and decrypt under the
\* passcode of the context (or of storage, put in the context meanwhile);
\* false when encrypt throws because crypto.subtle is missing
ValidateEncryption ==
  LET passcode == IF Truthy(currentPasscodeContext) THEN currentPasscodeContext
                  ELSE getPasscodeFromStorage(userProfile)
  IN IF ~ Truthy(passcode)
     THEN /\ ret' = Ret("validateEncryption", Undefined, TRUE, True, NoError,
                        << >>, 0)
          /\ UNCHANGED << currentPasscodeContext, userProfile, jobLists, app,
                          calls, webCrypto, now, ledger, rng, produced >>
     ELSE IF ~ webCrypto
     THEN /\ ret' = Ret("validateEncryption", Undefined, TRUE, False, NoError,
                        << "getMasterKey" >>, 0)
          /\ currentPasscodeContext' =
               contextAfterValidation(currentPasscodeContext, passcode)
          /\ UNCHANGED << userProfile, jobLists, app, calls, webCrypto, now,
                          ledger, rng, produced >>
     ELSE /\ Len(ledger) < MaxEncryptions
          /\ \E r \in { encrypt(TestData, passcode, userProfile, ledger, rng,
                                produced) } :
               /\ ret' = Ret("validateEncryption", Undefined, TRUE,
                             IF decrypt(r.value.encryptedData, r.value.iv,
                                        r.value.salt, passcode, userProfile,
                                        r.ledger).value = TestData
                             THEN True ELSE False,
                             NoError, r.steps, 0)
               /\ ledger' = r.ledger
               /\ rng' = r.rng
               /\ produced' = r.produced
          /\ currentPasscodeContext' =
               contextAfterValidation(currentPasscodeContext, passcode)
          /\ UNCHANGED << userProfile, jobLists, app, calls, webCrypto, now >>

\* what the interleaved saveUserProfile calls are given: a profile with the
\* passcode '1234', with the passcode '9999', with the stored hash only
InterleavedSaves ==
  { Profile(Str(<< 65 >>), Arr(<< [id |-> R1] >>),
            [NoSettings EXCEPT !.passcodeEnabled = True, !.passcode = pc,
                               !.passcodeHash = SHA256(K1)]) :
      pc \in { K1, K2, Undefined } }

\* a stored profile with passcode protection on, or nothing stored
InitInterleaved ==
  /\ currentPasscodeContext = Null
  /\ userProfile \in
       { Undefined,
         Profile(Str(<< 65 >>), Arr(<< [id |-> R1] >>),
                 [NoSettings EXCEPT !.passcodeEnabled = True,
                                    !.passcodeHash = SHA256(K1)]) }
  /\ jobLists = [r \in ResumeIds |-> Undefined]
  /\ webCrypto \in BOOLEAN
  /\ now = 1
  /\ ledger = << >>
  /\ rng = 0
  /\ produced = << >>
  /\ ret = Ret("none", Undefined, TRUE, Undefined, NoError, << >>, 0)
  /\ app = NoApp
  /\ calls = << >>

NextInterleaved ==
  \/ \E data \in InterleavedSaves : SaveUserProfileBegin(data)
  \/ \E i \in 1..Len(calls) : SaveUserProfileStatus(i)
  \/ \E i \in 1..Len(calls) : SaveUserProfileWritten(i)
  \/ ValidateEncryption
  \/ SetPasscodeContext(Null)

SpecInterleaved == InitInterleaved /\ [][NextInterleaved]_vars

\* ------------------------------------------------- saves that overlap
\* resume 'r2'
R2 == Str(<< 114, 50 >>)

OverlapResumeIds == { R1, R2 }

\* 'https://www.a' and 'https://www.b'
UrlA == Str(<< 104, 116, 116, 112, 115, 58, 47, 47, 119, 119, 119, 46, 97 >>)
UrlB == Str(<< 104, 116, 116, 112, 115, 58, 47, 47, 119, 119, 119, 46, 98 >>)

\* what saveJobsForResume is given: two jobs without id found at two urls
\* of one site, or a job that has an id
OverlapJobs ==
  { Arr(<< Job(Undefined, Str(<< 84 >>), Str(<< 67 >>), UrlA),
           Job(Undefined, Str(<< 85 >>), Str(<< 68 >>), UrlB) >>),
    Arr(<< JobWithId >>) }

\* what saveUserProfile is given: a profile with the stored hash only
OverlapSaves ==
  { Profile(Str(<< 66 >>), Arr(<< [id |-> R1] >>),
            [NoSettings EXCEPT !.passcodeEnabled = True,
                               !.passcodeHash = SHA256(K1)]) }

\* a save in flight: the function and its argument, the await it is at
\* ("status": getEncryptionSetupStatus, "encrypt": getPasscodeFromStorage
\* inside getMasterKey, "write": chrome.storage.local.set, "done"), the
\* jobLists that chrome.storage.local.get gave it, the way it took, the
\* record it writes and whether it resolved
OverlapCall(op, arg, snapshot) ==
  [op |-> op, arg |-> arg, pc |-> "status", snapshot |-> snapshot,
   way |-> "none", value |-> Undefined, ok |-> FALSE]

\* saveJobsForResume(resumeId, jobs) up to its first await: the callback of
\* chrome.storage.local.get(['jobLists']) has the stored lists in result
SaveJobsForResumeBegin(resumeId, jobs) ==
  /\ Len(calls) < MaxCalls
  /\ calls' = Append(calls, OverlapCall("saveJobsForResume",
                                        [resumeId |-> resumeId, jobs |-> jobs],
                                        jobLists))
  /\ UNCHANGED << currentPasscodeContext, userProfile, jobLists, app,
                  webCrypto, now, ledger, rng, produced, ret >>

\* saveUserProfile(data) up to its first await
SaveUserProfileCalled(data) ==
  /\ Len(calls) < MaxCalls
  /\ calls' = Append(calls, OverlapCall("saveUserProfile", data, Undefined))
  /\ currentPasscodeContext' =
       IF Truthy(passcodeForEncryption(data))
       THEN passcodeForEncryption(data) ELSE currentPasscodeContext
  /\ UNCHANGED << userProfile, jobLists, app, webCrypto, now, ledger, rng,
                  produced, ret >>

\* a rejection that comes after the plaintext record was written
rejectedAfterWrite(i) ==
  /\ calls' = [calls EXCEPT ![i].pc = "done", ![i].way = "rejected"]
  /\ ret' = Ret(calls[i].op, calls[i].arg, FALSE, Undefined,
                PASSCODE_REQUIRED, << "rejected" >>, 1)
  /\ IF calls[i].op = "saveJobsForResume"
     THEN /\ jobLists' = [calls[i].snapshot EXCEPT
                            ![calls[i].arg.resumeId] =
                              unencryptedJobs(calls[i].arg.jobs, now)]
          /\ UNCHANGED userProfile
     ELSE /\ userProfile' = unencryptedProfile(calls[i].arg)
          /\ UNCHANGED jobLists

\* the catch block on PASSCODE_REQUIRED_FOR_ENCRYPTION: reject(error) and
\* return, no chrome.storage.local.set
rejected(i) ==
  /\ calls' = [calls EXCEPT ![i].pc = "done", ![i].way = "rejected"]
  /\ ret' = Ret(calls[i].op, calls[i].arg, FALSE, Undefined,
                PASSCODE_REQUIRED, << "rejected" >>, 0)
  /\ UNCHANGED << userProfile, jobLists >>

\* the save goes on with the plan made: to its storage write, or rejected;
\* saveUserProfile clears the passcode context on every way but the
\* encrypted one
proceed(i, plan) ==
  /\ Len(plan.ledger) <= MaxEncryptions
  /\ IF plan.way = "rejected"
     THEN rejected(i)
     ELSE /\ calls' = [calls EXCEPT ![i].pc = "write", ![i].way = plan.way,
                                    ![i].value = plan.value]
          /\ UNCHANGED << userProfile, jobLists, ret >>
  /\ currentPasscodeContext' =
       IF calls[i].op = "saveUserProfile" /\ plan.way # "encrypted"
       THEN Null ELSE currentPasscodeContext
  /\ ledger' = plan.ledger
  /\ rng' = plan.rng
  /\ produced' = plan.produced
  /\ UNCHANGED << app, webCrypto, now >>

\* after await getEncryptionSetupStatus(). With a passcode in the context
\* getMasterKey returns without a further await and the save goes on at
\* once, as it does when no key is available. With a key found in storage
\* only, getMasterKey reads storage again (getPasscodeFromStorage) and
\* other callbacks run before it has the answer.
AwaitSetupStatus(i) ==
  /\ calls[i].pc = "status"
  /\ IF /\ ~ Truthy(currentPasscodeContext)
        /\ getEncryptionSetupStatus(currentPasscodeContext,
                                    userProfile).keyAvailable
     THEN /\ calls' = [calls EXCEPT ![i].pc = "encrypt"]
          /\ UNCHANGED << currentPasscodeContext, userProfile, jobLists, app,
                          webCrypto, now, ledger, rng, produced, ret >>
     ELSE \E plan \in
            { IF calls[i].op = "saveJobsForResume"
              THEN saveJobsForResumePlan(calls[i].arg.jobs,
                                         currentPasscodeContext, userProfile,
                                         ledger, rng, produced, now)
              ELSE saveUserProfilePlan(calls[i].arg, currentPasscodeContext,
                                       userProfile, ledger, rng, produced,
                                       now, webCrypto) } :
            proceed(i, plan)

\* encryptForStorage once getMasterKey has read storage: the text is
\* encrypted under what the context and storage hold now, or
\* PASSCODE_REQUIRED_FOR_ENCRYPTION is thrown
AwaitMasterKey(i) ==
  /\ calls[i].pc = "encrypt"
  /\ \E plan \in
       { IF calls[i].op = "saveJobsForResume"
         THEN saveJobsForResumeEncrypted(calls[i].arg.jobs,
                                         currentPasscodeContext, userProfile,
                                         ledger, rng, produced, now)
         ELSE saveUserProfileEncrypted(calls[i].arg, currentPasscodeContext,
                                       userProfile, ledger, rng, produced,
                                       now) } :
       proceed(i, plan)

\* the callback of chrome.storage.local.set: saveJobsForResume has written
\* { ...result.jobLists, [resumeId]: jobsStorageData }, saveUserProfile its
\* record
StorageSetCallback(i) ==
  /\ calls[i].pc = "write"
  /\ \E storageOk \in BOOLEAN :
       /\ IF calls[i].op = "saveJobsForResume"
          THEN /\ jobLists' =
                    IF storageOk
                    THEN [calls[i].snapshot EXCEPT
                            ![calls[i].arg.resumeId] = calls[i].value]
                    ELSE jobLists
               /\ UNCHANGED userProfile
          ELSE /\ SetUserProfile(calls[i].value, storageOk)
               /\ UNCHANGED jobLists
       /\ ret' = Ret(calls[i].op, calls[i].arg, Settled(storageOk).ok,
                     Undefined, Settled(storageOk).err, << calls[i].way >>, 1)
       /\ calls' = [calls EXCEPT ![i].pc = "done", ![i].ok = storageOk]
  /\ currentPasscodeContext' =
       IF calls[i].op = "saveUserProfile" /\ calls[i].way = "encrypted"
       THEN Null ELSE currentPasscodeContext
  /\ UNCHANGED << app, webCrypto, now, ledger, rng, produced >>

\* a stored profile with passcode protection, written by an older version
\* with its passcode or by saveUserProfile with the hash only; no job lists
InitOverlap ==
  /\ currentPasscodeContext = Null
  /\ userProfile \in
       { Profile(Str(<< 65 >>), Arr(<< [id |-> R1] >>),
                 [NoSettings EXCEPT !.passcodeEnabled = True,
                                    !.passcodeHash = SHA256(K1),
                                    !.passcode = pc]) :
           pc \in { K1, Undefined } }
  /\ jobLists = [r \in OverlapResumeIds |-> Undefined]
  /\ webCrypto = TRUE
  /\ now = 1
  /\ ledger = << >>
  /\ rng = 0
  /\ produced = << >>
  /\ ret = Ret("none", Undefined, TRUE, Undefined, NoError, << >>, 0)
  /\ app = NoApp
  /\ calls = << >>

NextOverlap ==
  \/ \E resumeId \in OverlapResumeIds, jobs \in OverlapJobs :
       SaveJobsForResumeBegin(resumeId, jobs)
  \/ \E data \in OverlapSaves : SaveUserProfileCalled(data)
  \/ \E i \in 1..Len(calls) : AwaitSetupStatus(i)
  \/ \E i \in 1..Len(calls) : AwaitMasterKey(i)
  \/ \E i \in 1..Len(calls) : StorageSetCallback(i)

SpecOverlap == InitOverlap /\ [][NextOverlap]_vars

\* ------------------------------------------- saves and validations in turn
\* calls made one after the other, each settled before the next starts:
\* saves that encrypt, saves in which crypto.subtle rejects, validations,
\* and a caller that sets the passcode context itself
\* what the saves are given: a profile with the passcode '1234', a profile
\* with the stored hash only
SequentialSaves ==
  { Profile(Str(<< 65 >>), Arr(<< [id |-> R1] >>),
            [NoSettings EXCEPT !.passcodeEnabled = True, !.passcode = pc,
                               !.passcodeHash = SHA256(K1)]) :
      pc \in { K1, Undefined } }

NextSequential ==
  \/ \E data \in SequentialSaves : SaveUserProfile(data)
  \/ \E data \in SequentialSaves : SaveUserProfileOnError(data)
  \/ ValidateEncryption
  \/ \E passcode \in { Null, K2 } : SetPasscodeContext(passcode)

\* no jobs stored, a stored profile or none
InitSequential ==
  /\ Init
  /\ jobLists = [r \in ResumeIds |-> Undefined]

SpecSequential == InitSequential /\ [][NextSequential]_vars

\* ---------------------------------------------- properties of the migration
\* C11: migrateToEncryption called while the stored profile is legacy
\* plaintext and no passcode is available (none in the context, none in the
\* stored settings) resolves with false, throws nothing, leaves userProfile
\* and every jobLists entry as they were, and the legacy profile and jobs
\* are read afterwards as they were read before.
C11_MigrationSoftFail ==
  [][(/\ ret'.op = "migrateToEncryption"
      /\ LegacyProfileStored
      /\ ~ getMasterKey(currentPasscodeContext, userProfile).ok)
       => /\ ret'.ok
          /\ ret'.value = False
          /\ userProfile' = userProfile
          /\ jobLists' = jobLists
          /\ getUserProfileResult(currentPasscodeContext', userProfile',
                                  ledger', now') # Null
          /\ getUserProfileResult(currentPasscodeContext', userProfile',
                                  ledger', now')
               = getUserProfileResult(currentPasscodeContext, userProfile,
                                      ledger, now)
          /\ \A r \in ResumeIds :
               getJobsForResumeResult(r, currentPasscodeContext', userProfile',
                                      jobLists', ledger')
                 = getJobsForResumeResult(r, currentPasscodeContext,
                                          userProfile, jobLists, ledger)]_vars

\* a skipped migration of a legacy profile with passcode protection on, no
\* passcode anywhere, and jobs stored for its resume
C11_Witness ==
  /\ ret.op = "migrateToEncryption"
  /\ ret.ok
  /\ ret.value = False
  /\ LegacyProfileStored
  /\ hasPasscodeKey(userProfile)
  /\ ~ getMasterKey(currentPasscodeContext, userProfile).ok
  /\ LegacyJobsStored(R1)

\* C12: after migrateToEncryption returned true, getUserProfile returns a
\* profile, and its personal data and resumes are those of the profile that
\* getUserProfile returned before the migration.
C12_MigratedProfileReadable ==
  [][(ret'.op = "migrateToEncryption" /\ ret'.ok /\ ret'.value = True)
       => /\ getUserProfileResult(currentPasscodeContext', userProfile',
                                  ledger', now') # Null
          /\ getUserProfileResult(currentPasscodeContext', userProfile',
                                  ledger', now').personalInfo
               = getUserProfileResult(currentPasscodeContext, userProfile,
                                      ledger, now).personalInfo
          /\ getUserProfileResult(currentPasscodeContext', userProfile',
                                  ledger', now').resumes
               = getUserProfileResult(currentPasscodeContext, userProfile,
                                      ledger, now).resumes]_vars

\* C13: after migrateToEncryption returned true, userProfile is stored as an
\* encrypted envelope, and so is the jobLists entry of every resume of the
\* migrated profile for which at least one job was read.
C13_MigrationEncryptsEverything ==
  [][(ret'.op = "migrateToEncryption" /\ ret'.ok /\ ret'.value = True)
       => /\ userProfile'.encryptedProfile # Undefined
          /\ \A r \in ResumeIds :
               (/\ \E i \in 1..Len(getUserProfileResult(
                                     currentPasscodeContext, userProfile,
                                     ledger, now).resumes.arr) :
                     getUserProfileResult(currentPasscodeContext, userProfile,
                                          ledger, now).resumes.arr[i].id = r
                /\ Len(getJobsForResumeResult(r, currentPasscodeContext,
                                              userProfile, jobLists,
                                              ledger).arr) > 0)
                 => /\ jobLists'[r] # Undefined
                    /\ jobLists'[r].encryptedJobs # Undefined]_vars

\* C13, the jobs alone and with Web Crypto available: a migration that
\* returned true and encrypted the profile leaves no plaintext jobs entry
\* written by itself.
C13_MigratedJobsEncrypted ==
  [][(/\ ret'.op = "migrateToEncryption" /\ ret'.ok /\ ret'.value = True
      /\ webCrypto
      /\ userProfile'.encryptedProfile # Undefined)
       => \A r \in ResumeIds :
            jobLists'[r] # jobLists[r] => jobLists'[r].encryptedJobs # Undefined]_vars

\* C14: migrateToEncryption called while the stored profile and the stored
\* jobs are encrypted envelopes writes nothing: no stored record changes, so
\* none changes its decrypted content and none becomes plaintext; this holds
\* for a first and for every further call.
C14_MigrationIdempotent ==
  [][(/\ ret'.op = "migrateToEncryption"
      /\ EncryptedProfileStored
      /\ \A r \in ResumeIds :
           jobLists[r] = Undefined \/ EncryptedJobsStored(r))
       => /\ userProfile' = userProfile
          /\ jobLists' = jobLists
          /\ userProfile'.encryptedProfile # Undefined
          /\ ledger' = ledger]_vars

\* a migration ran on an encrypted profile with encrypted jobs, after a
\* migration that had run before it
C14_Witness ==
  /\ ret.op = "migrateToEncryption"
  /\ ret.value = False
  /\ EncryptedProfileStored
  /\ EncryptedJobsStored(R1)
  /\ Len(produced) = 2

\* ------------------------------------------------ properties of the session
\* C15: once handleUnlock has accepted the entered passcode, that passcode
\* is the passcode context, getEncryptionSetupStatus reports a passcode and
\* a usable key, and a stored encrypted profile can be read.
C15_UnlockCreatesSessionSecret ==
  (ret.op = "handleUnlock" /\ ret.value = True)
  => /\ currentPasscodeContext = ret.arg
     /\ getEncryptionSetupStatus(currentPasscodeContext, userProfile).hasUserPassword
     /\ getEncryptionSetupStatus(currentPasscodeContext, userProfile).keyAvailable
     /\ EncryptedProfileStored =>
          getUserProfileResult(currentPasscodeContext, userProfile, ledger,
                               now) # Null

\* C16: when more than lockoutDelay has passed since lastActiveTime of the
\* stored settings, the mounted App is locked; and while the App is locked,
\* encrypt and decrypt fail with PASSCODE_REQUIRED_FOR_ENCRYPTION.
C16_SessionExpiry ==
  /\ (/\ ~ app.loading
      /\ LegacyProfileStored
      /\ Truthy(userProfile.settings.passcodeEnabled)
      /\ Truthy(userProfile.settings.passcodeHash)
      /\ lockoutElapsed(userProfile.settings, now))
       => app.isLocked
  /\ (app.isLocked /\ ret.op \in { "encrypt", "decrypt" })
       => (~ ret.ok /\ ret.err = PASSCODE_REQUIRED)

\* C17: when clearEncryptionKeys / clearMasterKey has returned, the passcode
\* context holds no passcode, and an encrypt call that follows it directly
\* fails with PASSCODE_REQUIRED_FOR_ENCRYPTION.
C17_ClearLocksSession ==
  [][/\ ret'.op = "clearMasterKey" => ~ Truthy(currentPasscodeContext')
     /\ (ret.op = "clearMasterKey" /\ ret'.op = "encrypt")
          => (~ ret'.ok /\ ret'.err = PASSCODE_REQUIRED)]_vars

\* C20: decrypt of texts whose salt decodes to another length than 32 bytes
\* fails without deriving a key; no envelope is ever produced under an empty
\* passcode; every key that encrypted something was derived from a salt of
\* 32 bytes.
C20_KeyDerivationValidation ==
  /\ (/\ ret.op = "decrypt"
      /\ base64ToArrayBuffer(ret.arg.salt.str).ok
      /\ Len(base64ToArrayBuffer(ret.arg.salt.str).bytes) # SALT_LENGTH)
       => /\ ~ ret.ok
          /\ \A i \in 1..Len(ret.steps) : ret.steps[i] # "deriveKey"
  /\ \A k \in 1..Len(produced) : Truthy(produced[k].passcode)
  /\ \A k \in 1..Len(ledger) : Len(ledger[k].key.salt) = SALT_LENGTH

\* ------------------------------------------ properties of interleaved calls
\* C19: a saveUserProfile call given a passcode is never rejected with
\* PASSCODE_REQUIRED_FOR_ENCRYPTION and encrypts under no other passcode
\* than its own, whatever runs between its awaits; and no operation that
\* was given no passcode (another saveUserProfile, validateEncryption)
\* encrypts under the passcode given to a saveUserProfile call.
C19_SecretSnapshot ==
  /\ \A i \in 1..Len(calls) :
       IF Truthy(passcodeForEncryption(calls[i].data))
       THEN /\ calls[i].way # "rejected"
            /\ calls[i].way = "encrypted" =>
                 calls[i].used = passcodeForEncryption(calls[i].data)
       ELSE calls[i].way = "encrypted" =>
              \A j \in 1..Len(calls) :
                calls[i].used # passcodeForEncryption(calls[j].data)
  /\ \A k \in 1..Len(produced) :
       produced[k].data = TestData =>
         \A j \in 1..Len(calls) :
           produced[k].passcode # passcodeForEncryption(calls[j].data)

\* C21: validateEncryption returns true only when it encrypted its test
\* data in this call and the decryption gave the test data back; it returns
\* false when it encrypted and the decryption gave something else.
C21_SelfTestPerformed ==
  ret.op = "validateEncryption" =>
    /\ ret.value = True =>
         /\ \E i \in 1..Len(ret.steps) : ret.steps[i] = "subtle.encrypt"
         /\ Len(produced) > 0
         /\ produced[Len(produced)].data = TestData
         /\ decrypt(produced[Len(produced)].result.encryptedData,
                    produced[Len(produced)].result.iv,
                    produced[Len(produced)].result.salt,
                    produced[Len(produced)].passcode, userProfile,
                    ledger).value = TestData
    /\ ret.value = False =>
         \A i \in 1..Len(ret.steps) : ret.steps[i] # "subtle.encrypt"
    /\ ret.value \in { True, False }

\* C30: a validateEncryption call, whatever it returns, leaves the passcode
\* context as it was when the call was made and writes no storage record.
C30_ValidationLeavesNoTrace ==
  [][ret'.op = "validateEncryption"
       => /\ currentPasscodeContext' = currentPasscodeContext
          /\ userProfile' = userProfile
          /\ jobLists' = jobLists]_vars

\* a validation took the passcode from storage while the context was null,
\* encrypted its test data under it, and the context is null again
C30_Witness ==
  /\ ret.op = "validateEncryption"
  /\ ret.value = True
  /\ Len(produced) > 0
  /\ produced[Len(produced)].data = TestData
  /\ produced[Len(produced)].passcode = getPasscodeFromStorage(userProfile)
  /\ currentPasscodeContext = Null

\* C25: when a saveUserProfile call has settled, resolved or rejected, on
\* the encrypted, the unencrypted, the crypto-unavailable and the fallback
\* way, with or without a storage error, the passcode context is null.
C25_ContextClearedAfterSave ==
  ret.op = "saveUserProfile" => currentPasscodeContext = Null

\* a save given '1234' encrypted the profile and its storage write failed
C25_Witness ==
  /\ ret.op = "saveUserProfile"
  /\ passcodeForEncryption(ret.arg) = K1
  /\ ret.steps = << "encrypted" >>
  /\ ret.err = "runtime.lastError"
  /\ currentPasscodeContext = Null

C29_HashFollowsPasscodeSetting ==
  (ret.op = "saveUserProfile" /\ ret.ok) =>
    \A written \in { IF ret.steps = << "encrypted" >>
                     THEN ParseProfile(produced[Len(produced)].data)
                     ELSE userProfile } :
      /\ (Truthy(ret.arg.settings.passcodeEnabled)
            /\ Truthy(ret.arg.settings.passcode))
           => written.settings.passcodeHash = SHA256(ret.arg.settings.passcode)
      /\ ~ Truthy(ret.arg.settings.passcodeEnabled)
           => written.settings.passcodeHash = Undefined
      /\ (Truthy(ret.arg.settings.passcodeEnabled)
            /\ ~ Truthy(ret.arg.settings.passcode))
           => written.settings.passcodeHash = ret.arg.settings.passcodeHash

\* a save with passcodeEnabled false whose data carried a hash and a
\* passcode resolved
C29_Witness ==
  /\ ret.op = "saveUserProfile"
  /\ ret.ok
  /\ ret.arg.settings.passcodeEnabled = False
  /\ ret.arg.settings.passcodeHash = SHA256(K1)
  /\ userProfile.settings # Undefined
  /\ userProfile.settings.passcodeHash = Undefined

\* the settings of the profile that was saved last: those of the stored
\* plaintext record, or those in the text that the stored envelope encrypts
lastSavedSettings ==
  IF LegacyProfileStored THEN userProfile.settings
  ELSE ParseProfile(
         produced[CHOOSE k \in 1..Len(produced) :
                    produced[k].result.encryptedData
                      = userProfile.encryptedProfile.encryptedContent].data
       ).settings

\* C27: when the profile saved last has passcodeEnabled and a passcodeHash,
\* whether it is stored as plaintext or as an encrypted envelope, the App
\* is locked after initialize unless lockoutDelay > 0 and not more than
\* lockoutDelay has passed since lastActiveTime.
C27_LockedAtStartup ==
  [][(app.loading /\ ~ app'.loading /\ userProfile # Undefined) =>
       \A settings \in { lastSavedSettings } :
         (Truthy(settings.passcodeEnabled) /\ Truthy(settings.passcodeHash))
           => \/ app'.isLocked
              \/ /\ settings.lockoutDelay.num > 0
                 /\ Truthy(settings.lastActiveTime)
                 /\ now - settings.lastActiveTime.num
                      <= settings.lockoutDelay.num]_vars

\* the plaintext half of C27
C27_LockedAtStartupPlaintext ==
  [][(app.loading /\ ~ app'.loading /\ LegacyProfileStored)
       => \/ app'.isLocked
          \/ now - userProfile.settings.lastActiveTime.num
               <= userProfile.settings.lockoutDelay.num]_vars

\* C28: in a mounted App isLocked goes from true to false only in a
\* handleUnlock call whose passcode has four characters or more and the
\* stored hash (here: is '1234'); a handleUnlock call with any other
\* passcode leaves the App locked and storage as it was.
C28_UnlockOnlyWithPasscode ==
  [][/\ (app.isLocked /\ ~ app'.isLocked /\ ~ app'.loading)
          => /\ ret'.op = "handleUnlock"
             /\ Len(ret'.arg.str) >= 4
             /\ SHA256(ret'.arg) = app.storedPasscodeHash
             /\ ret'.arg = K1
     /\ (/\ app.isLocked
         /\ ret'.op = "handleUnlock"
         /\ ~ (Len(ret'.arg.str) >= 4
                 /\ SHA256(ret'.arg) = app.storedPasscodeHash))
          => /\ app'.isLocked
             /\ userProfile' = userProfile
             /\ jobLists' = jobLists
             /\ ret'.writes = 0]_vars

\* '9999' was entered at the lock screen of a profile protected by '1234'
C28_Witness ==
  /\ ret.op = "handleUnlock"
  /\ ret.arg = K2
  /\ ret.value = False
  /\ app.isLocked
  /\ app.storedPasscodeHash = SHA256(K1)

\* C24: a saveUserProfile or saveJobsForResume call that is rejected with
\* PASSCODE_REQUIRED_FOR_ENCRYPTION has issued no storage write: it was
\* not yet at its write, and the step that rejects it leaves the stored
\* userProfile and jobLists as they were.
C24_NoWriteOnPasscodeRequired ==
  [][\A i \in 1..Len(calls) :
       (calls[i].way # "rejected" /\ calls'[i].way = "rejected")
         => /\ calls[i].pc \in { "status", "encrypt" }
            /\ ret'.err = PASSCODE_REQUIRED
            /\ ret'.writes = 0
            /\ userProfile' = userProfile
            /\ jobLists' = jobLists]_vars

\* a saveJobsForResume call was rejected with PASSCODE_REQUIRED_FOR_ENCRYPTION
C24_Witness ==
  /\ ret.op = "saveJobsForResume"
  /\ ret.err = PASSCODE_REQUIRED
  /\ \E i \in 1..Len(calls) :
       calls[i].op = "saveJobsForResume" /\ calls[i].way = "rejected"

\* a saveUserProfile call was rejected with PASSCODE_REQUIRED_FOR_ENCRYPTION
C24_ProfileSaveRejected ==
  /\ ret.op = "saveUserProfile"
  /\ ret.err = PASSCODE_REQUIRED
  /\ \E i \in 1..Len(calls) :
       calls[i].op = "saveUserProfile" /\ calls[i].way = "rejected"

\* C23: in the jobs saveJobsForResume is given, after ensureJobIds, two
\* jobs that had no id and have different urls have different ids, and a
\* job that had an id has kept it.
C23_JobIdsUnique ==
  \A i \in 1..Len(calls) :
    calls[i].op = "saveJobsForResume" =>
      \A withIds \in { ensureJobIds(calls[i].arg.jobs).arr } :
        \A a, b \in 1..Len(withIds) :
          /\ Truthy(calls[i].arg.jobs.arr[a].id)
               => withIds[a].id = calls[i].arg.jobs.arr[a].id
          /\ (/\ a # b
              /\ ~ Truthy(calls[i].arg.jobs.arr[a].id)
              /\ ~ Truthy(calls[i].arg.jobs.arr[b].id)
              /\ calls[i].arg.jobs.arr[a].url # calls[i].arg.jobs.arr[b].url)
               => withIds[a].id # withIds[b].id

\* the half of C23 about jobs that have an id
C23_GivenIdsKept ==
  \A i \in 1..Len(calls) :
    calls[i].op = "saveJobsForResume" =>
      \A a \in 1..Len(calls[i].arg.jobs.arr) :
        Truthy(calls[i].arg.jobs.arr[a].id)
          => ensureJobIds(calls[i].arg.jobs).arr[a].id
               = calls[i].arg.jobs.arr[a].id

\* C26: when two saveJobsForResume calls for different resumes have both
\* resolved, whether they overlapped or not, the entries of both resumes
\* are in the stored jobLists.
C26_BothEntriesPresent ==
  \A i, j \in 1..Len(calls) :
    (/\ calls[i].op = "saveJobsForResume" /\ calls[j].op = "saveJobsForResume"
     /\ calls[i].pc = "done" /\ calls[i].ok
     /\ calls[j].pc = "done" /\ calls[j].ok
     /\ calls[i].arg.resumeId # calls[j].arg.resumeId)
      => /\ jobLists[calls[i].arg.resumeId] # Undefined
         /\ jobLists[calls[j].arg.resumeId] # Undefined

\* the half of C26 about a call that no other write overlaps: its write
\* changes the entry of its resume only
C26_OtherEntriesKeptInTurn ==
  [][\A i \in 1..Len(calls) :
       (/\ calls[i].op = "saveJobsForResume"
        /\ calls[i].pc = "write" /\ calls'[i].pc = "done"
        /\ calls[i].snapshot = jobLists)
         => \A r \in OverlapResumeIds \ { calls[i].arg.resumeId } :
              jobLists'[r] = jobLists[r]]_vars

====
